---------------------------- MODULE Spec2Model ----------------------------
(***************************************************************************)
(* Model of dunbar's contact and message synchronisation layer:            *)
(*   pkg/contacts/contacts.go   ContactManager and GoogleContactsProvider  *)
(*   pkg/messages/messages.go   MessageManager                             *)
(*   BeeperProvider.Sync                                                   *)
(*   the messages TUI, the contacts TUI and the init commands              *)
(*                                                                         *)
(* Go strings that the code inspects character by character (uids and      *)
(* resource names) are sequences of one-character strings.  A *time.Time   *)
(* is <<>> for nil and <<t>> for a set value.                              *)
(***************************************************************************)
EXTENDS Integers, Sequences, FiniteSets, TLC

VARIABLES
    local,          \* contacts/people/<uid>.json : uid -> Contact
    remote,         \* the Google account's connections : id -> person
    clock,          \* the value time.Now() returns
    g,              \* the GoogleContactsProvider object
    syncTokenFile,  \* contacts/google_sync_token.txt : <<>> or <<token>>
    origin,         \* history: which operation created each local record
    db,             \* messages.db : the conversations and messages tables
    beeper,         \* the Beeper account: its chats and their messages
    tui,            \* the messagesModel of the messages TUI
    ctui,           \* the contactsModel of the contacts TUI
    setup,          \* a run of an init command: its position and the files
    procs,          \* two CLI processes on one directory: their positions
    last,           \* history: the last operation, its inputs and effects
    prev            \* history: the operation before it and its result

vars == <<local, remote, clock, g, syncTokenFile, origin, db, beeper,
          tui, ctui, setup, procs, last, prev>>

-----------------------------------------------------------------------------
(* Bounds *)

MaxClock == 3       \* operations start at times 0..MaxClock-1
MaxBatch == 3       \* longest list handed to WriteContacts
PageSize == 1       \* connections per People API page
BeeperPageSize == 1 \* chats, and messages of a chat, per Beeper page
MaxMsgs == 3        \* longest mixed message list laid out
MaxChain == 6       \* longest list of one sender's messages laid out

-----------------------------------------------------------------------------
(* Universes *)

\* ids the People API assigns (the part after "people/")
ProviderIdSeq == << <<"1">>, <<"2">> >>
ProviderIds == {ProviderIdSeq[i] : i \in DOMAIN ProviderIdSeq}

\* values uuid.New().String() can return (shortened 8-4-4-4-12 form)
UUIDs == { <<"a", "-", "4">>, <<"b", "-", "4">> }

AllUids == ProviderIds \cup UUIDs

Names == {"Ann", "Bob"}
ETags == {"e1"}
Tokens == {"t1", "t2"}

Nil == <<>>
Now == <<clock>>

-----------------------------------------------------------------------------
(* String helpers *)

\* strings.Contains(uid, "-")
HasHyphen(s) == \E i \in DOMAIN s : s[i] = "-"

\* parts := strings.Split(s, "/"); parts[len(parts)-1]
LastSegment(s) ==
    IF \E i \in DOMAIN s : s[i] = "/"
    THEN LET k == CHOOSE i \in DOMAIN s :
                      /\ s[i] = "/"
                      /\ \A j \in DOMAIN s : s[j] = "/" => j <= i
         IN  SubSeq(s, k + 1, Len(s))
    ELSE s

\* the resource name the People API reports for a connection
ResourceName(id) == <<"p", "e", "o", "p", "l", "e", "/">> \o id

Range(f) == {f[x] : x \in DOMAIN f}
Max(S) == CHOOSE x \in S : \A y \in S : y <= x

\* one step of an operation's effect log
Ev(call, uid, ok) == [call |-> call, uid |-> uid, ok |-> ok]

\* the local store with the file of uid (re)written / removed
Put(loc, c) == (c.uid :> c) @@ loc
Drop(f, k) == [x \in DOMAIN f \ {k} |-> f[x]]


-----------------------------------------------------------------------------
(* Records *)

\* contacts.Contact, reduced to the fields the sync layer reads or writes
Contact(uid, etag, name, lm, ls) ==
    [uid |-> uid, etag |-> etag, full_name |-> name,
     last_modified |-> lm, last_synced |-> ls]

\* peopleAPIPerson as the connections listing returns it
Person(id, p) ==
    [resourceName |-> ResourceName(id), etag |-> p.etag,
     displayName |-> p.displayName]

-----------------------------------------------------------------------------
(* GoogleContactsProvider *)

\* NewGoogleContactsProvider: no config, no token, no sync token
NewGoogleContactsProvider == [config |-> FALSE, token |-> FALSE, syncToken |-> Nil]

\* Initialize on a provider gv; creds is what LoadCredentials finds on disk:
\* "missing", "norefresh" (no refresh token stored yet) or "full"
Initialize(gv, creds, tokenFile) ==
    IF creds = "missing"
    THEN [g |-> gv, err |-> "credentials"]
    ELSE [g |-> [config |-> TRUE,
                 token |-> IF creds = "full" THEN TRUE ELSE gv.token,
                 syncToken |-> IF tokenFile # Nil THEN tokenFile ELSE gv.syncToken],
          err |-> "none"]

\* SaveSyncToken: sets the field, then writes the file (which may fail)
SaveSyncToken(gv, tokenFile, token, writeOK) ==
    [g |-> [gv EXCEPT !.syncToken = <<token>>],
     file |-> IF writeOK THEN <<token>> ELSE tokenFile,
     err |-> IF writeOK THEN "none" ELSE "persist"]

\* GetSyncToken
GetSyncToken(gv) == gv.syncToken

\* variant: the resource name is stored as the uid, prefix included
convertPeopleAPIToContactKeepingPrefix(person) ==
    Contact(person.resourceName, person.etag, person.displayName, Nil, Nil)

\* convertPeopleAPIToContact
convertPeopleAPIToContact(person) ==
    Contact(LastSegment(person.resourceName), person.etag,
            person.displayName, Nil, Nil)

\* the connections in the order the listing returns them
Connections(rem) ==
    LET present == SelectSeq(ProviderIdSeq, LAMBDA id : id \in DOMAIN rem)
    IN  [i \in DOMAIN present |-> Person(present[i], rem[present[i]])]

\* number of pages the listing is served in (an empty listing is one page)
NumPages(rem) ==
    LET n == Cardinality(DOMAIN rem)
    IN  IF n = 0 THEN 1 ELSE (n + PageSize - 1) \div PageSize

\* the connections of page p
Page(rem, p) ==
    LET all == Connections(rem)
        lo == (p - 1) * PageSize + 1
        hi == IF p * PageSize < Len(all) THEN p * PageSize ELSE Len(all)
    IN  SubSeq(all, lo, hi)

\* variant: a failed page request returns the contacts collected so far
RECURSIVE FetchPagesKeepingPartial(_, _, _, _, _)
FetchPagesKeepingPartial(rem, now, failPage, p, acc) ==
    IF p = failPage
    THEN [contacts |-> acc, err |-> "fetch", pages |-> p]
    ELSE LET conv == [i \in DOMAIN Page(rem, p) |->
                        [convertPeopleAPIToContact(Page(rem, p)[i])
                            EXCEPT !.last_synced = now]]
             all == acc \o conv
         IN  IF p >= NumPages(rem)
             THEN [contacts |-> all, err |-> "none", pages |-> p]
             ELSE FetchPagesKeepingPartial(rem, now, failPage, p + 1, all)

\* the loop of FetchContacts from page p on, acc the contacts collected so
\* far; failPage is the page whose request fails (0: none does)
RECURSIVE FetchPages(_, _, _, _, _)
FetchPages(rem, now, failPage, p, acc) ==
    IF p = failPage
    THEN [contacts |-> <<>>, err |-> "fetch", pages |-> p]
    ELSE LET conv == [i \in DOMAIN Page(rem, p) |->
                        [convertPeopleAPIToContact(Page(rem, p)[i])
                            EXCEPT !.last_synced = now]]
             all == acc \o conv
         IN  IF p >= NumPages(rem)
             THEN [contacts |-> all, err |-> "none", pages |-> p]
             ELSE FetchPages(rem, now, failPage, p + 1, all)

\* FetchContacts; refreshOK: the forced token refresh succeeds
FetchContacts(gv, rem, now, refreshOK, failPage) ==
    IF ~(gv.config /\ gv.token)
    THEN [contacts |-> <<>>, err |-> "uninitialized", pages |-> 0]
    ELSE IF ~refreshOK
    THEN [contacts |-> <<>>, err |-> "refresh", pages |-> 0]
    ELSE FetchPages(rem, now, failPage, 1, <<>>)

\* variant: the provider updates a contact it holds under the uid and
\* creates any other
GoogleWriteContactRoutingByExistence(contact, gv, rem, idSrc, netOK) ==
    IF ~(gv.config /\ gv.token)
    THEN [remote |-> rem, err |-> "uninitialized", req |-> "none", idSrc |-> idSrc]
    ELSE IF contact.uid \in DOMAIN rem
    THEN IF netOK
         THEN [remote |-> [rem EXCEPT ![contact.uid].displayName = contact.full_name],
               err |-> "none", req |-> "update", idSrc |-> idSrc]
         ELSE [remote |-> rem, err |-> "provider", req |-> "update", idSrc |-> idSrc]
    ELSE IF netOK /\ idSrc # <<>>
         THEN [remote |-> (Head(idSrc) :> [etag |-> "e1", displayName |-> contact.full_name])
                            @@ rem,
               err |-> "none", req |-> "create", idSrc |-> Tail(idSrc)]
         ELSE [remote |-> rem, err |-> "provider", req |-> "create", idSrc |-> idSrc]

\* GoogleContactsProvider.WriteContact; idSrc is the ids the server will
\* assign to created contacts, netOK whether the request gets a 200
GoogleWriteContact(contact, gv, rem, idSrc, netOK) ==
    IF ~(gv.config /\ gv.token)
    THEN [remote |-> rem, err |-> "uninitialized", req |-> "none", idSrc |-> idSrc]
    ELSE IF ~HasHyphen(contact.uid)
    THEN \* PATCH people/<uid>:updateContact
         IF netOK /\ contact.uid \in DOMAIN rem
         THEN [remote |-> [rem EXCEPT ![contact.uid].displayName = contact.full_name],
               err |-> "none", req |-> "update", idSrc |-> idSrc]
         ELSE [remote |-> rem, err |-> "provider", req |-> "update", idSrc |-> idSrc]
    ELSE \* POST people:createContact
         IF netOK /\ idSrc # <<>>
         THEN [remote |-> (Head(idSrc) :> [etag |-> "e1", displayName |-> contact.full_name])
                            @@ rem,
               err |-> "none", req |-> "create", idSrc |-> Tail(idSrc)]
         ELSE [remote |-> rem, err |-> "provider", req |-> "create", idSrc |-> idSrc]

\* GoogleContactsProvider.DeleteContact
GoogleDeleteContact(uid, gv, rem, netOK) ==
    IF ~(gv.config /\ gv.token)
    THEN [remote |-> rem, err |-> "uninitialized"]
    ELSE IF netOK /\ uid \in DOMAIN rem
    THEN [remote |-> Drop(rem, uid), err |-> "none"]
    ELSE [remote |-> rem, err |-> "provider"]

-----------------------------------------------------------------------------
(* ContactManager *)

\* GetContact: the record read back from disk, <<>> for "not found"
GetContact(loc, uid) == IF uid \in DOMAIN loc THEN <<loc[uid]>> ELSE <<>>

\* variant: the write also stamps last_synced
WriteContactStampingSynced(contact, loc, rem, gv, now, uuidSrc, idSrc, persistOK, netOK) ==
    LET fresh == contact.uid = <<>>
        c0 == IF fresh THEN [contact EXCEPT !.uid = Head(uuidSrc)] ELSE contact
        c == [c0 EXCEPT !.last_modified = now, !.last_synced = now]
        us == IF fresh THEN Tail(uuidSrc) ELSE uuidSrc
    IN  IF ~persistOK
        THEN [local |-> loc, remote |-> rem, err |-> "persist", uid |-> c.uid,
              trace |-> <<Ev("os.WriteFile", c.uid, FALSE)>>,
              uuidSrc |-> us, idSrc |-> idSrc, req |-> "none"]
        ELSE LET push == GoogleWriteContact(c, gv, rem, idSrc, netOK)
             IN  [local |-> Put(loc, c), remote |-> push.remote,
                  err |-> IF push.err = "none" THEN "none" ELSE "provider",
                  uid |-> c.uid,
                  trace |-> <<Ev("os.WriteFile", c.uid, TRUE),
                              Ev("provider.WriteContact", c.uid, push.err = "none")>>,
                  uuidSrc |-> us, idSrc |-> push.idSrc, req |-> push.req]

\* variant: the provider is pushed to first and the file is written only
\* when the push succeeded
WriteContactPushFirst(contact, loc, rem, gv, now, uuidSrc, idSrc, persistOK, netOK) ==
    LET fresh == contact.uid = <<>>
        c0 == IF fresh THEN [contact EXCEPT !.uid = Head(uuidSrc)] ELSE contact
        c == [c0 EXCEPT !.last_modified = now]
        us == IF fresh THEN Tail(uuidSrc) ELSE uuidSrc
        push == GoogleWriteContact(c, gv, rem, idSrc, netOK)
        t1 == <<Ev("provider.WriteContact", c.uid, push.err = "none")>>
    IN  IF push.err # "none"
        THEN [local |-> loc, remote |-> rem, err |-> "provider", uid |-> c.uid,
              trace |-> t1, uuidSrc |-> us, idSrc |-> idSrc,
              req |-> push.req]
        ELSE [local |-> IF persistOK THEN Put(loc, c) ELSE loc,
              remote |-> push.remote,
              err |-> IF persistOK THEN "none" ELSE "persist",
              uid |-> c.uid,
              trace |-> Append(t1, Ev("os.WriteFile", c.uid, persistOK)),
              uuidSrc |-> us, idSrc |-> push.idSrc, req |-> push.req]

\* WriteContact.  uuidSrc: the values uuid.New() returns next; idSrc: the ids
\* the server assigns next; persistOK: os.WriteFile succeeds; netOK: the
\* provider request succeeds
WriteContact(contact, loc, rem, gv, now, uuidSrc, idSrc, persistOK, netOK) ==
    LET fresh == contact.uid = <<>>
        c0 == IF fresh THEN [contact EXCEPT !.uid = Head(uuidSrc)] ELSE contact
        c == [c0 EXCEPT !.last_modified = now]
        us == IF fresh THEN Tail(uuidSrc) ELSE uuidSrc
    IN  IF ~persistOK
        THEN [local |-> loc, remote |-> rem, err |-> "persist", uid |-> c.uid,
              trace |-> <<Ev("os.WriteFile", c.uid, FALSE)>>,
              uuidSrc |-> us, idSrc |-> idSrc, req |-> "none"]
        ELSE LET push == GoogleWriteContact(c, gv, rem, idSrc, netOK)
             IN  [local |-> Put(loc, c), remote |-> push.remote,
                  err |-> IF push.err = "none" THEN "none" ELSE "provider",
                  uid |-> c.uid,
                  trace |-> <<Ev("os.WriteFile", c.uid, TRUE),
                              Ev("provider.WriteContact", c.uid, push.err = "none")>>,
                  uuidSrc |-> us, idSrc |-> push.idSrc, req |-> push.req]

\* variant: a failed write is remembered and the loop goes on
RECURSIVE WriteContactsFromContinuing(_, _, _, _, _, _, _)
WriteContactsFromContinuing(contacts, i, st, gv, t, failAt, failKind) ==
    IF i > Len(contacts)
    THEN st
    ELSE LET r == WriteContact(contacts[i], st.local, st.remote, gv, <<t + i - 1>>,
                               st.uuidSrc, st.idSrc,
                               ~(failAt = i /\ failKind = "persist"),
                               ~(failAt = i /\ failKind = "provider"))
             st2 == [local |-> r.local, remote |-> r.remote,
                     err |-> IF st.err # "none" THEN st.err ELSE r.err,
                     uids |-> Append(st.uids, r.uid),
                     trace |-> st.trace \o r.trace,
                     uuidSrc |-> r.uuidSrc, idSrc |-> r.idSrc]
         IN  WriteContactsFromContinuing(contacts, i + 1, st2, gv, t, failAt, failKind)

\* the loop of WriteContacts from element i on; st is the result so far.
\* Each WriteContact reads time.Now() itself: element i is written at t+i-1.
\* failAt is the element whose write fails (0: none is made to fail) and
\* failKind whether its os.WriteFile or its provider request fails
RECURSIVE WriteContactsFrom(_, _, _, _, _, _, _)
WriteContactsFrom(contacts, i, st, gv, t, failAt, failKind) ==
    IF i > Len(contacts)
    THEN st
    ELSE LET r == WriteContact(contacts[i], st.local, st.remote, gv, <<t + i - 1>>,
                               st.uuidSrc, st.idSrc,
                               ~(failAt = i /\ failKind = "persist"),
                               ~(failAt = i /\ failKind = "provider"))
             st2 == [local |-> r.local, remote |-> r.remote, err |-> r.err,
                     uids |-> Append(st.uids, r.uid),
                     trace |-> st.trace \o r.trace,
                     uuidSrc |-> r.uuidSrc, idSrc |-> r.idSrc]
         IN  IF r.err # "none"
             THEN st2
             ELSE WriteContactsFrom(contacts, i + 1, st2, gv, t, failAt, failKind)

\* WriteContacts, started at time t
WriteContacts(contacts, loc, rem, gv, t, uuidSrc, idSrc, failAt, failKind) ==
    WriteContactsFrom(contacts, 1,
                      [local |-> loc, remote |-> rem, err |-> "none",
                       uids |-> <<>>, trace |-> <<>>,
                       uuidSrc |-> uuidSrc, idSrc |-> idSrc],
                      gv, t, failAt, failKind)

\* isProviderContact := !strings.Contains(uid, "-")
IsProviderContact(uid) == ~HasHyphen(uid)

\* variant: the local file is removed before the provider is asked
DeleteContactLocalFirst(uid, loc, rem, gv, netOK, rmOK) ==
    IF uid \notin DOMAIN loc
    THEN [local |-> loc, remote |-> rem, err |-> "notfound",
          trace |-> <<Ev("os.Remove", uid, FALSE)>>]
    ELSE IF ~rmOK
    THEN [local |-> loc, remote |-> rem, err |-> "remove",
          trace |-> <<Ev("os.Remove", uid, FALSE)>>]
    ELSE LET del == IF IsProviderContact(uid)
                    THEN GoogleDeleteContact(uid, gv, rem, netOK)
                    ELSE [remote |-> rem, err |-> "none"]
             t2 == IF IsProviderContact(uid)
                   THEN <<Ev("provider.DeleteContact", uid, del.err = "none")>>
                   ELSE <<>>
         IN  [local |-> Drop(loc, uid), remote |-> del.remote,
              err |-> IF del.err = "none" THEN "none" ELSE "provider",
              trace |-> <<Ev("os.Remove", uid, TRUE)>> \o t2]

\* variant: a failed provider delete is not checked
DeleteContactIgnoringProviderError(uid, loc, rem, gv, netOK, rmOK) ==
    LET del == IF IsProviderContact(uid)
               THEN GoogleDeleteContact(uid, gv, rem, netOK)
               ELSE [remote |-> rem, err |-> "none"]
        t1 == IF IsProviderContact(uid)
              THEN <<Ev("provider.DeleteContact", uid, del.err = "none")>>
              ELSE <<>>
    IN  IF uid \notin DOMAIN loc
        THEN [local |-> loc, remote |-> del.remote, err |-> "notfound",
              trace |-> Append(t1, Ev("os.Remove", uid, FALSE))]
        ELSE IF ~rmOK
        THEN [local |-> loc, remote |-> del.remote, err |-> "remove",
              trace |-> Append(t1, Ev("os.Remove", uid, FALSE))]
        ELSE [local |-> Drop(loc, uid), remote |-> del.remote, err |-> "none",
              trace |-> Append(t1, Ev("os.Remove", uid, TRUE))]

\* DeleteContact.  netOK: the provider request succeeds; rmOK: os.Remove of
\* an existing file succeeds
DeleteContact(uid, loc, rem, gv, netOK, rmOK) ==
    LET del == IF IsProviderContact(uid)
               THEN GoogleDeleteContact(uid, gv, rem, netOK)
               ELSE [remote |-> rem, err |-> "none"]
        t1 == IF IsProviderContact(uid)
              THEN <<Ev("provider.DeleteContact", uid, del.err = "none")>>
              ELSE <<>>
    IN  IF del.err # "none"
        THEN [local |-> loc, remote |-> del.remote, err |-> "provider", trace |-> t1]
        ELSE IF uid \notin DOMAIN loc
        THEN [local |-> loc, remote |-> del.remote, err |-> "notfound",
              trace |-> Append(t1, Ev("os.Remove", uid, FALSE))]
        ELSE IF ~rmOK
        THEN [local |-> loc, remote |-> del.remote, err |-> "remove",
              trace |-> Append(t1, Ev("os.Remove", uid, FALSE))]
        ELSE [local |-> Drop(loc, uid), remote |-> del.remote, err |-> "none",
              trace |-> Append(t1, Ev("os.Remove", uid, TRUE))]

\* variant: the sync write stamps last_modified as WriteContact does
writeContactStampingModified(contact, loc, now, uuidSrc, persistOK) ==
    LET fresh == contact.uid = <<>>
        c0 == IF fresh THEN [contact EXCEPT !.uid = Head(uuidSrc)] ELSE contact
        c == [c0 EXCEPT !.last_synced = now, !.last_modified = now]
    IN  IF ~persistOK
        THEN [local |-> loc, err |-> "persist", uid |-> c.uid,
              trace |-> <<Ev("os.WriteFile", c.uid, FALSE)>>]
        ELSE [local |-> Put(loc, c), err |-> "none", uid |-> c.uid,
              trace |-> <<Ev("os.WriteFile", c.uid, TRUE)>>]

\* writeContactWithoutModifyingTimestamp
writeContactWithoutModifyingTimestamp(contact, loc, now, uuidSrc, persistOK) ==
    LET fresh == contact.uid = <<>>
        c0 == IF fresh THEN [contact EXCEPT !.uid = Head(uuidSrc)] ELSE contact
        c == [c0 EXCEPT !.last_synced = now]
    IN  IF ~persistOK
        THEN [local |-> loc, err |-> "persist", uid |-> c.uid,
              trace |-> <<Ev("os.WriteFile", c.uid, FALSE)>>]
        ELSE [local |-> Put(loc, c), err |-> "none", uid |-> c.uid,
              trace |-> <<Ev("os.WriteFile", c.uid, TRUE)>>]

\* the loop of SyncContacts over the fetched contacts from element i on
RECURSIVE SyncWriteFrom(_, _, _, _, _, _)
SyncWriteFrom(contacts, i, st, now, uuidSrc, failWrite) ==
    IF i > Len(contacts)
    THEN st
    ELSE LET r == writeContactWithoutModifyingTimestamp(
                      contacts[i], st.local, now, uuidSrc, failWrite # i)
             st2 == [st EXCEPT !.local = r.local, !.err = r.err,
                               !.trace = st.trace \o r.trace]
         IN  IF r.err # "none"
             THEN st2
             ELSE SyncWriteFrom(contacts, i + 1, st2, now, uuidSrc, failWrite)

\* variant: the sync mirrors the account, removing the provider-assigned
\* records that were not fetched
SyncContactsMirroring(loc, rem, gv, now, uuidSrc, refreshOK, failPage, failWrite) ==
    LET f == FetchContacts(gv, rem, now, refreshOK, failPage)
        t0 == <<Ev("provider.FetchContacts", <<>>, f.err = "none")>>
        fetchedUids == {f.contacts[i].uid : i \in DOMAIN f.contacts}
        kept == [u \in {v \in DOMAIN loc : HasHyphen(v) \/ v \in fetchedUids}
                    |-> loc[u]]
    IN  IF f.err # "none"
        THEN [local |-> loc, err |-> "fetch", fetched |-> f.contacts, trace |-> t0]
        ELSE SyncWriteFrom(f.contacts, 1,
                           [local |-> kept, err |-> "none",
                            fetched |-> f.contacts, trace |-> t0],
                           now, uuidSrc, failWrite)

\* SyncContacts.  refreshOK, failPage: see FetchContacts; failWrite: the
\* fetched contact whose local write fails (0: none)
SyncContacts(loc, rem, gv, now, uuidSrc, refreshOK, failPage, failWrite) ==
    LET f == FetchContacts(gv, rem, now, refreshOK, failPage)
        t0 == <<Ev("provider.FetchContacts", <<>>, f.err = "none")>>
    IN  IF f.err # "none"
        THEN [local |-> loc, err |-> "fetch", fetched |-> f.contacts, trace |-> t0]
        ELSE SyncWriteFrom(f.contacts, 1,
                           [local |-> loc, err |-> "none",
                            fetched |-> f.contacts, trace |-> t0],
                           now, uuidSrc, failWrite)

-----------------------------------------------------------------------------
(* Messages: the Beeper provider, the database and the MessageManager *)

ChatIdSeq == <<"c1", "c2">>
MsgIdSeq == <<"m1", "m2", "m3">>
ChatIds == Range(ChatIdSeq)
MsgIds == Range(MsgIdSeq)
Titles == {"A", "B"}
Texts == {"x", "y"}

NoChats == [chats |-> <<>>, msgs |-> <<>>]
EmptyDB == [convs |-> <<>>, msgs |-> <<>>]

\* the chats of the account, and the messages of chat c, in listing order
ChatList(b) == SelectSeq(ChatIdSeq, LAMBDA c : c \in DOMAIN b.chats)
MsgList(b, c) ==
    SelectSeq(MsgIdSeq, LAMBDA m : m \in DOMAIN b.msgs /\ b.msgs[m].chat = c)

\* number of pages a listing of n items is served in
PagesOf(n) == IF n = 0 THEN 1 ELSE (n + BeeperPageSize - 1) \div BeeperPageSize

\* an auto-paging iterator over list whose request for page failPage fails
\* (0: none fails): the items it yields before Next() returns false, and Err()
Paged(list, failPage) ==
    IF failPage \in 1..PagesOf(Len(list))
    THEN [items |-> SubSeq(list, 1, (failPage - 1) * BeeperPageSize), err |-> TRUE]
    ELSE [items |-> list, err |-> FALSE]

\* where a Beeper request fails: nowhere, at a page of the chat listing, or
\* at a page of the messages of the chat-th chat
NoFail == [kind |-> "none", chat |-> 0, page |-> 0]
FailPoints(b) ==
    {NoFail}
      \cup {[kind |-> "chats", chat |-> 0, page |-> p] :
                p \in 1..PagesOf(Len(ChatList(b)))}
      \cup UNION {{[kind |-> "messages", chat |-> i, page |-> q] :
                      q \in 1..PagesOf(Len(MsgList(b, ChatList(b)[i])))} :
                  i \in DOMAIN ChatList(b)}

Conversation(b, c) == [id |-> c, title |-> b.chats[c].title]
Message(b, m) ==
    [id |-> m, conversation_uid |-> b.msgs[m].chat,
     chat_title |-> b.chats[b.msgs[m].chat].title, text |-> b.msgs[m].text]

\* the chat loop of BeeperProvider.Sync from the i-th yielded chat on
RECURSIVE BeeperSyncFrom(_, _, _, _, _, _)
BeeperSyncFrom(b, fail, chats, i, convs, msgs) ==
    IF i > Len(chats.items)
    THEN IF chats.err
         THEN [conversations |-> <<>>, messages |-> <<>>, err |-> "chats"]
         ELSE [conversations |-> convs, messages |-> msgs, err |-> "none"]
    ELSE LET c == chats.items[i]
             it == Paged(MsgList(b, c),
                         IF fail.kind = "messages" /\ fail.chat = i
                         THEN fail.page ELSE 0)
             got == [j \in DOMAIN it.items |-> Message(b, it.items[j])]
         IN  IF it.err
             THEN [conversations |-> <<>>, messages |-> <<>>, err |-> "messages"]
             ELSE BeeperSyncFrom(b, fail, chats, i + 1,
                                 Append(convs, Conversation(b, c)), msgs \o got)

\* BeeperProvider.Sync
BeeperSync(b, fail) ==
    BeeperSyncFrom(b, fail,
                   Paged(ChatList(b), IF fail.kind = "chats" THEN fail.page ELSE 0),
                   1, <<>>, <<>>)

\* a table after the first k records of recs were written over it by id
Upsert(table, recs, k) ==
    LET ids == {recs[i].id : i \in 1..k}
    IN  [id \in DOMAIN table \cup ids |->
            IF id \in ids
            THEN recs[Max({i \in 1..k : recs[i].id = id})]
            ELSE table[id]]

\* DB.SaveConversations / DB.SaveMessages: records are written over the rows
\* with their id; on a fault the first k were flushed
SaveConversations(d, convs, k, ok) ==
    [db |-> [d EXCEPT !.convs = Upsert(d.convs, convs, IF ok THEN Len(convs) ELSE k)],
     err |-> IF ok THEN "none" ELSE "persist"]

SaveMessages(d, msgs, k, ok) ==
    [db |-> [d EXCEPT !.msgs = Upsert(d.msgs, msgs, IF ok THEN Len(msgs) ELSE k)],
     err |-> IF ok THEN "none" ELSE "persist"]

\* variant: the messages are saved whether or not the conversations were
MessageManagerSyncSavingRegardless(d, b, fail, kC, okC, kM, okM) ==
    LET r == BeeperSync(b, fail)
        t1 == <<Ev("provider.Sync", <<>>, r.err = "none")>>
    IN  IF r.err # "none"
        THEN [db |-> d, err |-> "provider", trace |-> t1]
        ELSE LET sc == SaveConversations(d, r.conversations, kC, okC)
                 t2 == Append(t1, Ev("db.SaveConversations", <<>>, sc.err = "none"))
                 sm == SaveMessages(sc.db, r.messages, kM, okM)
                 t3 == Append(t2, Ev("db.SaveMessages", <<>>, sm.err = "none"))
             IN  [db |-> sm.db,
                  err |-> IF sc.err # "none" THEN "saveConversations"
                          ELSE IF sm.err # "none" THEN "saveMessages" ELSE "none",
                  trace |-> t3]

\* variant: a provider failure empties the store
MessageManagerSyncClearingOnFailure(d, b, fail, kC, okC, kM, okM) ==
    LET r == BeeperSync(b, fail)
        t1 == <<Ev("provider.Sync", <<>>, r.err = "none")>>
    IN  IF r.err # "none"
        THEN [db |-> EmptyDB, err |-> "provider", trace |-> t1]
        ELSE LET sc == SaveConversations(d, r.conversations, kC, okC)
                 t2 == Append(t1, Ev("db.SaveConversations", <<>>, sc.err = "none"))
             IN  IF sc.err # "none"
                 THEN [db |-> sc.db, err |-> "saveConversations", trace |-> t2]
                 ELSE LET sm == SaveMessages(sc.db, r.messages, kM, okM)
                          t3 == Append(t2, Ev("db.SaveMessages", <<>>, sm.err = "none"))
                      IN  [db |-> sm.db,
                           err |-> IF sm.err # "none" THEN "saveMessages" ELSE "none",
                           trace |-> t3]

\* MessageManager.Sync.  fail: where the provider fails; kC/okC and kM/okM:
\* how SaveConversations and SaveMessages end
MessageManagerSync(d, b, fail, kC, okC, kM, okM) ==
    LET r == BeeperSync(b, fail)
        t1 == <<Ev("provider.Sync", <<>>, r.err = "none")>>
    IN  IF r.err # "none"
        THEN [db |-> d, err |-> "provider", trace |-> t1]
        ELSE LET sc == SaveConversations(d, r.conversations, kC, okC)
                 t2 == Append(t1, Ev("db.SaveConversations", <<>>, sc.err = "none"))
             IN  IF sc.err # "none"
                 THEN [db |-> sc.db, err |-> "saveConversations", trace |-> t2]
                 ELSE LET sm == SaveMessages(sc.db, r.messages, kM, okM)
                          t3 == Append(t2, Ev("db.SaveMessages", <<>>, sm.err = "none"))
                      IN  [db |-> sm.db,
                           err |-> IF sm.err # "none" THEN "saveMessages" ELSE "none",
                           trace |-> t3]

-----------------------------------------------------------------------------
(* Inputs *)

\* the orders in which the members of S can be handed out
Perms(S) ==
    {f \in [1..Cardinality(S) -> S] : \A i, j \in DOMAIN f : i # j => f[i] # f[j]}

\* a contact built by a caller: no uid, no timestamps
Fresh(n) == Contact(<<>>, "", n, Nil, Nil)

\* the contacts a caller can hand to WriteContact: a new one, or one read
\* from the store (GetContact / ListContacts) with its name edited or kept
Inputs(loc) ==
    {Fresh(n) : n \in Names}
        \cup {[loc[u] EXCEPT !.full_name = n] : u \in DOMAIN loc, n \in Names}

NumFresh(contacts) == Cardinality({i \in DOMAIN contacts : contacts[i].uid = <<>>})

Last(op, uid, contacts, err, trace, uids, fetched) ==
    [op |-> op, uid |-> uid, contacts |-> contacts, err |-> err,
     trace |-> trace, uids |-> uids, fetched |-> fetched]

\* what the operation before the last one was, and how it ended
Prev(l) == <<l.op, l.err>>

\* the uids an effect log names under a call / under a call that succeeded
Called(trace, call) == {trace[i].uid : i \in {j \in DOMAIN trace : trace[j].call = call}}
Done(trace, call) ==
    {trace[i].uid : i \in {j \in DOMAIN trace : trace[j].call = call /\ trace[j].ok}}

-----------------------------------------------------------------------------
(* Contact store: initial state and operations.  Every operation reads      *)
(* time.Now() once, and time has advanced when the next one starts.         *)

\* a provider that Initialize has configured; token: a refresh token was stored
Configured(token) == [config |-> TRUE, token |-> token, syncToken |-> Nil]

Init ==
    /\ local = <<>>
    /\ remote \in {<<>>, [id \in ProviderIds |-> [etag |-> "e1", displayName |-> "Ann"]]}
    /\ clock = 0
    /\ procs = Nil
    /\ g \in {Configured(TRUE), Configured(FALSE)}
    /\ syncTokenFile = Nil
    /\ origin = <<>>
    /\ last = Last("none", <<>>, <<>>, "none", <<>>, <<>>, <<>>)
    /\ prev = <<"none", "none">>
    /\ db = EmptyDB
    /\ tui = Nil
    /\ ctui = Nil
    /\ setup = Nil
    /\ beeper = NoChats

\* the account's owner adds, renames or removes a connection elsewhere
RemoteChange ==
    /\ clock < MaxClock
    /\ \E id \in ProviderIds :
        \/ /\ id \notin DOMAIN remote
           /\ \E n \in Names :
                remote' = (id :> [etag |-> "e1", displayName |-> n]) @@ remote
        \/ /\ id \in DOMAIN remote
           /\ \E n \in Names \ {remote[id].displayName} :
                remote' = [remote EXCEPT ![id].displayName = n]
        \/ /\ id \in DOMAIN remote
           /\ remote' = Drop(remote, id)
    /\ clock' = clock + 1
    /\ prev' = Prev(last)
    /\ last' = Last("remote", <<>>, <<>>, "none", <<>>, <<>>, <<>>)
    /\ UNCHANGED <<local, g, syncTokenFile, origin, db, beeper, tui, ctui, setup, procs>>

\* the canonical order of a set of uids: the choice of order is immaterial
\* when the operation draws no value from the source
Canon(S) == CHOOSE f \in Perms(S) : TRUE

DoWriteContact ==
    /\ clock < MaxClock
    /\ \E c \in Inputs(local),
          uuidSrc \in Perms(UUIDs \ DOMAIN local),
          idSrc \in Perms(ProviderIds \ DOMAIN remote),
          persistOK \in BOOLEAN, netOK \in BOOLEAN :
        /\ NumFresh(<<c>>) <= Len(uuidSrc)
        /\ c.uid # <<>> => uuidSrc = Canon(UUIDs \ DOMAIN local)
        /\ (~persistOK \/ ~netOK \/ ~g.token
                \/ (c.uid # <<>> /\ ~HasHyphen(c.uid)))
              => idSrc = Canon(ProviderIds \ DOMAIN remote)
        /\ ~persistOK => netOK
        /\ LET r == WriteContact(c, local, remote, g, Now, uuidSrc, idSrc,
                                 persistOK, netOK)
           IN  /\ local' = r.local
               /\ remote' = r.remote
               /\ origin' = [u \in DOMAIN r.local |->
                               IF u \in DOMAIN origin THEN origin[u] ELSE "generated"]
               /\ last' = [req |-> r.req]
                              @@ Last("WriteContact", r.uid, <<c>>, r.err, r.trace,
                                      <<r.uid>>, <<>>)
    /\ clock' = clock + 1
    /\ prev' = Prev(last)
    /\ UNCHANGED <<g, syncTokenFile, db, beeper, tui, ctui, setup, procs>>

DoDeleteContact ==
    /\ clock < MaxClock
    /\ \E uid \in AllUids, netOK \in BOOLEAN, rmOK \in BOOLEAN :
        LET r == DeleteContact(uid, local, remote, g, netOK, rmOK)
        IN  /\ local' = r.local
            /\ remote' = r.remote
            /\ origin' = [u \in DOMAIN r.local |-> origin[u]]
            /\ last' = Last("DeleteContact", uid, <<>>, r.err, r.trace, <<>>, <<>>)
    /\ clock' = clock + 1
    /\ prev' = Prev(last)
    /\ UNCHANGED <<g, syncTokenFile, db, beeper, tui, ctui, setup, procs>>

DoSyncContacts ==
    /\ clock < MaxClock
    /\ \E refreshOK \in BOOLEAN,
          failPage \in 0..NumPages(remote),
          failWrite \in 0..Cardinality(DOMAIN remote) :
        /\ ~refreshOK => failPage = 0
        /\ (~refreshOK \/ failPage # 0) => failWrite = 0
        /\ LET r == SyncContacts(local, remote, g, Now,
                                 Canon(UUIDs \ DOMAIN local), refreshOK,
                                 failPage, failWrite)
           IN  /\ local' = r.local
               /\ origin' = [u \in DOMAIN r.local |->
                               IF u \in Done(r.trace, "os.WriteFile")
                               THEN "sync" ELSE origin[u]]
               /\ last' = Last("SyncContacts", <<>>, <<>>, r.err, r.trace,
                               <<>>, r.fetched)
    /\ clock' = clock + 1
    /\ prev' = Prev(last)
    /\ UNCHANGED <<remote, g, syncTokenFile, db, beeper, tui, ctui, setup, procs>>

Next ==
    \/ RemoteChange
    \/ DoWriteContact
    \/ DoDeleteContact
    \/ DoSyncContacts

Spec == Init /\ [][Next]_vars

-----------------------------------------------------------------------------
(* Batch writes.  The store is empty or as an earlier sync left it; every   *)
(* element of a batch takes one unit of time.                               *)

InitBatch ==
    /\ remote = (<<"1">> :> [etag |-> "e1", displayName |-> "Ann"])
    /\ g \in {Configured(TRUE), Configured(FALSE)}
    /\ local \in {<<>>,
                  SyncContacts(<<>>, remote, Configured(TRUE), <<-1>>,
                               Canon(UUIDs), TRUE, 0, 0).local}
    /\ origin = [u \in DOMAIN local |-> "sync"]
    /\ clock = 0
    /\ procs = Nil
    /\ syncTokenFile = Nil
    /\ last = Last("none", <<>>, <<>>, "none", <<>>, <<>>, <<>>)
    /\ prev = <<"none", "none">>
    /\ db = EmptyDB
    /\ tui = Nil
    /\ ctui = Nil
    /\ setup = Nil
    /\ beeper = NoChats

DoWriteContacts ==
    \E n \in 1..MaxBatch :
        /\ clock + n <= MaxClock
        /\ \E cs \in [1..n -> Inputs(local)],
              uuidSrc \in Perms(UUIDs \ DOMAIN local),
              idSrc \in Perms(ProviderIds \ DOMAIN remote),
              failAt \in 0..n, failKind \in {"persist", "provider"} :
            /\ NumFresh(cs) <= Len(uuidSrc)
            /\ NumFresh(cs) = 0 => uuidSrc = Canon(UUIDs \ DOMAIN local)
            /\ failAt = 0 => failKind = "persist"
            /\ LET r == WriteContacts(cs, local, remote, g, clock, uuidSrc, idSrc,
                                      failAt, failKind)
               IN  /\ local' = r.local
                   /\ remote' = r.remote
                   /\ origin' = [u \in DOMAIN r.local |->
                                   IF u \in DOMAIN origin THEN origin[u]
                                   ELSE "generated"]
                   /\ last' = Last("WriteContacts", <<>>, cs, r.err, r.trace,
                                   r.uids, <<>>)
                   /\ clock' = clock + Len(r.uids)
        /\ prev' = Prev(last)
        /\ UNCHANGED <<g, syncTokenFile, db, beeper, tui, ctui, setup, procs>>

NextBatch == DoWriteContacts

SpecBatch == InitBatch /\ [][NextBatch]_vars

-----------------------------------------------------------------------------
(* The Google provider on its own: construction, Initialize, the sync       *)
(* token and FetchContacts, driven as getContactManager and SyncContacts    *)
(* drive them.                                                              *)

InitGoogle ==
    /\ local = <<>>
    /\ remote \in {<<>>, [id \in ProviderIds |-> [etag |-> "e1", displayName |-> "Ann"]]}
    /\ clock = 0
    /\ procs = Nil
    /\ g = NewGoogleContactsProvider
    /\ syncTokenFile = Nil
    /\ origin = <<>>
    /\ last = Last("none", <<>>, <<>>, "none", <<>>, <<>>, <<>>)
    /\ prev = <<"none", "none">>
    /\ db = EmptyDB
    /\ tui = Nil
    /\ ctui = Nil
    /\ setup = Nil
    /\ beeper = NoChats

\* getContactManager: a new provider object is created and initialized
DoInitialize ==
    /\ clock < MaxClock
    /\ \E creds \in {"missing", "norefresh", "full"} :
        LET r == Initialize(NewGoogleContactsProvider, creds, syncTokenFile)
        IN  /\ g' = r.g
            /\ last' = Last("Initialize", <<>>, <<>>, r.err, <<>>, <<>>, <<>>)
    /\ clock' = clock + 1
    /\ prev' = Prev(last)
    /\ UNCHANGED <<local, remote, syncTokenFile, origin, db, beeper, tui, ctui, setup, procs>>

DoSaveSyncToken ==
    /\ clock < MaxClock
    /\ \E token \in Tokens, writeOK \in BOOLEAN :
        LET r == SaveSyncToken(g, syncTokenFile, token, writeOK)
        IN  /\ g' = r.g
            /\ syncTokenFile' = r.file
            /\ last' = Last("SaveSyncToken", <<>>, <<>>, r.err, <<>>, <<>>, <<>>)
    /\ clock' = clock + 1
    /\ prev' = Prev(last)
    /\ UNCHANGED <<local, remote, origin, db, beeper, tui, ctui, setup, procs>>

\* the page requests a fetch made: n of them, the last one failed on "fetch"
PageRequests(n, err) ==
    [i \in 1..n |-> Ev("people.connections.list", <<>>, ~(i = n /\ err = "fetch"))]

\* FetchContacts writes no file and no field but the refreshed OAuth token
DoFetchContacts ==
    /\ clock < MaxClock
    /\ \E refreshOK \in BOOLEAN, failPage \in 0..NumPages(remote) :
        /\ ~refreshOK => failPage = 0
        /\ LET r == FetchContacts(g, remote, Now, refreshOK, failPage)
           IN  last' = Last("FetchContacts", <<>>, <<>>, r.err,
                            PageRequests(r.pages, r.err), <<>>, r.contacts)
    /\ clock' = clock + 1
    /\ prev' = Prev(last)
    /\ UNCHANGED <<local, remote, g, syncTokenFile, origin, db, beeper, tui, ctui, setup, procs>>

NextGoogle ==
    \/ DoInitialize
    \/ DoSaveSyncToken
    \/ DoFetchContacts
    \/ RemoteChange

SpecGoogle == InitGoogle /\ [][NextGoogle]_vars

-----------------------------------------------------------------------------
(* Message sync: the MessageManager against a Beeper account that changes   *)

InitMsg ==
    /\ local = <<>>
    /\ remote = <<>>
    /\ clock = 0
    /\ procs = Nil
    /\ g = NewGoogleContactsProvider
    /\ syncTokenFile = Nil
    /\ origin = <<>>
    /\ last = Last("none", <<>>, <<>>, "none", <<>>, <<>>, <<>>)
    /\ prev = <<"none", "none">>
    /\ db = EmptyDB
    /\ tui = Nil
    /\ ctui = Nil
    /\ setup = Nil
    /\ beeper \in {NoChats,
                   [chats |-> [c \in ChatIds |-> [title |-> "A"]],
                    msgs |-> ("m1" :> [chat |-> "c1", text |-> "x"])
                              @@ ("m2" :> [chat |-> "c1", text |-> "x"])
                              @@ ("m3" :> [chat |-> "c2", text |-> "x"])]}

\* chats and messages come, change and go at Beeper
BeeperChange ==
    /\ clock < MaxClock
    /\ \/ \E c \in ChatIds \ DOMAIN beeper.chats, t \in Titles :
            beeper' = [beeper EXCEPT !.chats = (c :> [title |-> t]) @@ @]
       \/ \E c \in DOMAIN beeper.chats : \E t \in Titles \ {beeper.chats[c].title} :
            beeper' = [beeper EXCEPT !.chats[c].title = t]
       \/ \E c \in DOMAIN beeper.chats :
            beeper' = [chats |-> Drop(beeper.chats, c),
                       msgs |-> [m \in {x \in DOMAIN beeper.msgs :
                                           beeper.msgs[x].chat # c} |-> beeper.msgs[m]]]
       \/ \E m \in MsgIds \ DOMAIN beeper.msgs, c \in DOMAIN beeper.chats, x \in Texts :
            beeper' = [beeper EXCEPT !.msgs = (m :> [chat |-> c, text |-> x]) @@ @]
       \/ \E m \in DOMAIN beeper.msgs : \E x \in Texts \ {beeper.msgs[m].text} :
            beeper' = [beeper EXCEPT !.msgs[m].text = x]
       \/ \E m \in DOMAIN beeper.msgs :
            beeper' = [beeper EXCEPT !.msgs = Drop(@, m)]
    /\ clock' = clock + 1
    /\ last' = Last("beeper", <<>>, <<>>, "none", <<>>, <<>>, <<>>)
    /\ prev' = Prev(last)
    /\ UNCHANGED <<local, remote, g, syncTokenFile, origin, db, tui, ctui, setup, procs>>

DoMessageSync ==
    /\ clock < MaxClock
    /\ \E fail \in FailPoints(beeper),
          okC \in BOOLEAN, kC \in 0..Cardinality(DOMAIN beeper.chats),
          okM \in BOOLEAN, kM \in 0..Cardinality(DOMAIN beeper.msgs) :
        /\ okC => kC = 0
        /\ okM => kM = 0
        /\ (fail # NoFail) => (okC /\ okM)
        /\ ~okC => okM
        /\ LET r == MessageManagerSync(db, beeper, fail, kC, okC, kM, okM)
           IN  /\ db' = r.db
               /\ last' = Last("MessageSync", <<>>, <<>>, r.err, r.trace, <<>>, <<>>)
    /\ clock' = clock + 1
    /\ prev' = Prev(last)
    /\ UNCHANGED <<local, remote, g, syncTokenFile, origin, beeper, tui, ctui, setup, procs>>

NextMsg ==
    \/ BeeperChange
    \/ DoMessageSync

SpecMsg == InitMsg /\ [][NextMsg]_vars

-----------------------------------------------------------------------------
(* The two provider fetches on their own, against accounts that change      *)

InitFetch ==
    /\ local = <<>>
    /\ remote \in {<<>>, [id \in ProviderIds |-> [etag |-> "e1", displayName |-> "Ann"]]}
    /\ clock = 0
    /\ procs = Nil
    /\ g \in {Configured(TRUE), Configured(FALSE)}
    /\ syncTokenFile = Nil
    /\ origin = <<>>
    /\ last = Last("none", <<>>, <<>>, "none", <<>>, <<>>, <<>>)
    /\ prev = <<"none", "none">>
    /\ db = EmptyDB
    /\ tui = Nil
    /\ ctui = Nil
    /\ setup = Nil
    /\ beeper \in {NoChats,
                   [chats |-> [c \in ChatIds |-> [title |-> "A"]],
                    msgs |-> ("m1" :> [chat |-> "c1", text |-> "x"])
                              @@ ("m2" :> [chat |-> "c1", text |-> "x"])
                              @@ ("m3" :> [chat |-> "c2", text |-> "x"])]}

\* BeeperProvider.Sync: reads the account, changes nothing
DoBeeperSync ==
    /\ clock < MaxClock
    /\ \E fail \in FailPoints(beeper) :
        LET r == BeeperSync(beeper, fail)
        IN  last' = Last("BeeperSync", <<>>, <<>>, r.err, <<>>, <<>>,
                         [conversations |-> r.conversations, messages |-> r.messages])
    /\ clock' = clock + 1
    /\ prev' = Prev(last)
    /\ UNCHANGED <<local, remote, g, syncTokenFile, origin, db, beeper, tui, ctui, setup, procs>>

NextFetch ==
    \/ RemoteChange
    \/ BeeperChange
    \/ DoFetchContacts
    \/ DoBeeperSync

SpecFetch == InitFetch /\ [][NextFetch]_vars

-----------------------------------------------------------------------------
(* Messages TUI: the layout of the message pane.  A timestamp is a number  *)
(* of minutes; a text is the sequence of the lengths of its words; a       *)
(* rendered string is the sequence of its "\n"-terminated lines.            *)

MinutesPerDay == 1440
GroupMinutes == 5

Max2(a, b) == IF a > b THEN a ELSE b
Min2(a, b) == IF a < b THEN a ELSE b

\* a message as the pane uses it
Msg(sender, ts, text) == [sender_uid |-> sender, timestamp |-> ts, text |-> text]

\* sameDay
sameDay(t1, t2) == (t1 \div MinutesPerDay) = (t2 \div MinutesPerDay)

\* variant: messages exactly five minutes apart are not grouped
shouldGroupWithPreviousUnderFive(msg, prevMsg) ==
    IF prevMsg = Nil THEN FALSE
    ELSE IF msg.sender_uid # prevMsg[1].sender_uid THEN FALSE
    ELSE IF ~sameDay(msg.timestamp, prevMsg[1].timestamp) THEN FALSE
    ELSE LET timeDiff == msg.timestamp - prevMsg[1].timestamp
         IN  ~(timeDiff >= GroupMinutes \/ timeDiff <= -GroupMinutes)

\* shouldGroupWithPrevious; prevMsg is Nil or <<message>>
shouldGroupWithPrevious(msg, prevMsg) ==
    IF prevMsg = Nil THEN FALSE
    ELSE IF msg.sender_uid # prevMsg[1].sender_uid THEN FALSE
    ELSE IF ~sameDay(msg.timestamp, prevMsg[1].timestamp) THEN FALSE
    ELSE LET timeDiff == msg.timestamp - prevMsg[1].timestamp
         IN  ~(timeDiff > GroupMinutes \/ timeDiff < -GroupMinutes)

\* len of the words joined by single blanks
RECURSIVE TextLen(_)
TextLen(words) ==
    IF Len(words) = 0 THEN 0
    ELSE IF Len(words) = 1 THEN words[1]
    ELSE words[1] + 1 + TextLen(Tail(words))

\* the word loop of wrapText: the lengths of the lines
RECURSIVE wrapWords(_, _, _, _, _)
wrapWords(words, i, currentLine, lines, width) ==
    IF i > Len(words)
    THEN IF currentLine # 0 THEN Append(lines, currentLine) ELSE lines
    ELSE IF currentLine + 1 + words[i] > width
         THEN wrapWords(words, i + 1, words[i], Append(lines, currentLine), width)
         ELSE wrapWords(words, i + 1, currentLine + 1 + words[i], lines, width)

\* wrapText
wrapText(text, width) ==
    IF width <= 0 THEN <<TextLen(text)>>
    ELSE IF Len(text) = 0 THEN <<0>>
    ELSE wrapWords(text, 2, text[1], <<>>, width)

\* formatMessage: a blank line after another sender's message, the
\* sender/time line unless grouped, then the wrapped text
formatMessage(msg, width, prevMsg) ==
    LET shouldGroup == shouldGroupWithPrevious(msg, prevMsg)
        wrappedLines == wrapText(msg.text, width - 4)
    IN  (IF ~shouldGroup /\ prevMsg # Nil THEN <<"blank">> ELSE <<>>)
          \o (IF ~shouldGroup THEN <<"header">> ELSE <<>>)
          \o [i \in DOMAIN wrappedLines |-> "text"]

\* renderDateSeparator: one line
renderDateSeparator(date, width) == <<"separator">>

\* displayItem: a message (by its position in msgs, from 0) or a separator
MessageItem(i) == [message |-> <<i>>, dateSeparator |-> Nil]
SeparatorItem(date) == [message |-> Nil, dateSeparator |-> <<date>>]
isMessage(d) == d.message # Nil
isSeparator(d) == d.dateSeparator # Nil

\* variant: the first message gets a separator only if its day differs
\* from the zero date
RECURSIVE insertFromComparingFirst(_, _, _, _)
insertFromComparingFirst(msgs, i, lastDate, items) ==
    IF i >= Len(msgs) THEN items
    ELSE LET msgDate == msgs[i + 1].timestamp
         IN  IF ~sameDay(msgDate, lastDate)
             THEN insertFromComparingFirst(msgs, i + 1, msgDate,
                             items \o <<SeparatorItem(msgDate), MessageItem(i)>>)
             ELSE insertFromComparingFirst(msgs, i + 1, lastDate,
                                           Append(items, MessageItem(i)))

\* insertDateSeparators from message i (from 0) on
RECURSIVE insertFrom(_, _, _, _)
insertFrom(msgs, i, lastDate, items) ==
    IF i >= Len(msgs) THEN items
    ELSE LET msgDate == msgs[i + 1].timestamp
         IN  IF i = 0 \/ ~sameDay(msgDate, lastDate)
             THEN insertFrom(msgs, i + 1, msgDate,
                             items \o <<SeparatorItem(msgDate), MessageItem(i)>>)
             ELSE insertFrom(msgs, i + 1, lastDate, Append(items, MessageItem(i)))

insertDateSeparators(msgs) ==
    IF Len(msgs) = 0 THEN <<>> ELSE insertFrom(msgs, 0, 0, <<>>)

\* the loop of calculateVisibleMessageCount from display item k on
RECURSIVE measureFrom(_, _, _, _, _, _, _)
measureFrom(msgs, items, k, st, startIndex, width, availableHeight) ==
    IF k > Len(items) THEN st
    ELSE IF isMessage(items[k])
    THEN IF st.messageIndex < startIndex
         THEN measureFrom(msgs, items, k + 1,
                          [st EXCEPT !.messageIndex = @ + 1],
                          startIndex, width, availableHeight)
         ELSE LET msg == msgs[items[k].message[1] + 1]
                  lineCount == Len(formatMessage(msg, width, st.prevMsg))
              IN  IF st.linesUsed + lineCount > availableHeight
                  THEN st
                  ELSE measureFrom(msgs, items, k + 1,
                                   [linesUsed |-> st.linesUsed + lineCount,
                                    messageCount |-> st.messageCount + 1,
                                    messageIndex |-> st.messageIndex + 1,
                                    prevMsg |-> <<msg>>],
                                   startIndex, width, availableHeight)
    ELSE IF isSeparator(items[k]) /\ st.messageIndex >= startIndex
    THEN LET lineCount ==
                 Len(renderDateSeparator(items[k].dateSeparator[1], width)) + 1
         IN  IF st.linesUsed + lineCount > availableHeight
             THEN st
             ELSE measureFrom(msgs, items, k + 1,
                              [st EXCEPT !.linesUsed = @ + lineCount,
                                         !.prevMsg = Nil],
                              startIndex, width, availableHeight)
    ELSE measureFrom(msgs, items, k + 1, st, startIndex, width, availableHeight)

MeasureStart == [linesUsed |-> 0, messageCount |-> 0, messageIndex |-> 0, prevMsg |-> Nil]

\* variant: a message that lacks one line of room is counted
calculateVisibleMessageCountRoundingUp(msgs, startIndex, width, availableHeight) ==
    IF Len(msgs) = 0 \/ startIndex >= Len(msgs) THEN 0
    ELSE Max2(1, measureFrom(msgs, insertDateSeparators(msgs), 1, MeasureStart,
                             startIndex, width, availableHeight + 1).messageCount)

\* variant: no minimum of one
calculateVisibleMessageCountWithoutMinimum(msgs, startIndex, width, availableHeight) ==
    IF Len(msgs) = 0 \/ startIndex >= Len(msgs) THEN 0
    ELSE measureFrom(msgs, insertDateSeparators(msgs), 1, MeasureStart,
                     startIndex, width, availableHeight).messageCount

\* calculateVisibleMessageCount
calculateVisibleMessageCount(msgs, startIndex, width, availableHeight) ==
    IF Len(msgs) = 0 \/ startIndex >= Len(msgs) THEN 0
    ELSE Max2(1, measureFrom(msgs, insertDateSeparators(msgs), 1, MeasureStart,
                             startIndex, width, availableHeight).messageCount)

\* the look-ahead of renderMessagesView from display item j on: is a message
\* of the separator's day at or below the viewport top
RECURSIVE lookAhead(_, _, _, _)
lookAhead(items, j, tempMessageIndex, viewTop) ==
    IF j > Len(items) THEN FALSE
    ELSE IF isMessage(items[j])
    THEN IF tempMessageIndex >= viewTop THEN TRUE
         ELSE IF tempMessageIndex + 1 > viewTop + 2 THEN FALSE
         ELSE lookAhead(items, j + 1, tempMessageIndex + 1, viewTop)
    ELSE FALSE

\* what a frame shows: a message (position from 0) or a day's separator
DrawnMessage(i, selected) == [kind |-> "message", index |-> i, selected |-> selected]
DrawnSeparator(date) == [kind |-> "separator", date |-> date]

\* the loop of renderMessagesView from display item k on
RECURSIVE renderFrom(_, _, _, _)
renderFrom(m, items, k, st) ==
    IF k > Len(items) THEN st
    ELSE IF isMessage(items[k])
    THEN IF st.messageIndex < m.messagesViewTop
         THEN renderFrom(m, items, k + 1, [st EXCEPT !.messageIndex = @ + 1])
         ELSE LET msg == m.messages[items[k].message[1] + 1]
                  isSelected == st.messageIndex = m.messagesCursor
                  lineCount == Len(formatMessage(msg, m.width - 4, st.prevMsg))
              IN  IF st.linesUsed + lineCount > m.height - 4
                  THEN st
                  ELSE renderFrom(m, items, k + 1,
                           [linesUsed |-> st.linesUsed + lineCount,
                            messageIndex |-> st.messageIndex + 1,
                            prevMsg |-> <<msg>>,
                            inViewport |-> TRUE,
                            drawn |-> Append(st.drawn,
                                             DrawnMessage(st.messageIndex, isSelected))])
    ELSE IF isSeparator(items[k])
    THEN LET nextMessageInViewport ==
                 lookAhead(items, k + 1, st.messageIndex, m.messagesViewTop)
             date == items[k].dateSeparator[1]
             lineCount == Len(renderDateSeparator(date, m.width - 4)) + 1
         IN  IF st.inViewport \/ nextMessageInViewport
             THEN IF st.linesUsed + lineCount > m.height - 4
                  THEN st
                  ELSE renderFrom(m, items, k + 1,
                           [st EXCEPT !.linesUsed = @ + lineCount,
                                      !.prevMsg = Nil,
                                      !.drawn = Append(@, DrawnSeparator(date))])
             ELSE renderFrom(m, items, k + 1, st)
    ELSE renderFrom(m, items, k + 1, st)

\* renderMessagesView: the records of the frame between header and footer
renderMessagesView(m) ==
    IF Len(m.messages) = 0 THEN <<>>
    ELSE renderFrom(m, insertDateSeparators(m.messages), 1,
                    [linesUsed |-> 0, messageIndex |-> 0, prevMsg |-> Nil,
                     inViewport |-> FALSE, drawn |-> <<>>]).drawn

-----------------------------------------------------------------------------
(* The layout functions on their own, over bounded message lists *)

Senders == {"a", "b"}
BodyTexts == {<<40>>, <<40, 40>>}
Gaps == {3, MinutesPerDay}
Widths == {80, 100}
Heights == (4..10) \cup {13, 14}

\* the chronological lists of n messages
RECURSIVE MessageLists(_)
MessageLists(n) ==
    IF n = 0 THEN {<<>>}
    ELSE IF n = 1 THEN {<<Msg("a", 0, t)>> : t \in BodyTexts}
    ELSE {Append(l, Msg(s, l[n - 1].timestamp + gap, t)) :
              l \in MessageLists(n - 1), s \in Senders, gap \in Gaps, t \in BodyTexts}

\* the lists of n messages one sender wrote three minutes apart
RECURSIVE Chains(_)
Chains(n) ==
    IF n = 0 THEN {<<>>}
    ELSE {Append(l, Msg("a", 3 * (n - 1), t)) : l \in Chains(n - 1), t \in BodyTexts}

LayoutLists ==
    UNION {MessageLists(n) : n \in 0..MaxMsgs} \cup UNION {Chains(n) : n \in 0..MaxChain}

\* the fields of a messagesModel
MessagesModel(conversations, cursor, viewportTop, height, width, viewMode, selectedConvID, messages, messagesCursor, messagesViewTop, confirmingDelete, deleteConvID) ==
    [conversations |-> conversations, cursor |-> cursor,
     viewportTop |-> viewportTop, height |-> height, width |-> width,
     viewMode |-> viewMode, selectedConvID |-> selectedConvID,
     messages |-> messages, messagesCursor |-> messagesCursor,
     messagesViewTop |-> messagesViewTop,
     confirmingDelete |-> confirmingDelete, deleteConvID |-> deleteConvID]

\* a message pane showing msgs from message top on
InitLayout ==
    /\ local = <<>>
    /\ remote = <<>>
    /\ clock = 0
    /\ procs = Nil
    /\ g = NewGoogleContactsProvider
    /\ syncTokenFile = Nil
    /\ origin = <<>>
    /\ db = EmptyDB
    /\ beeper = NoChats
    /\ ctui = Nil
    /\ setup = Nil
    /\ last = [op |-> "none", err |-> "none"]
    /\ prev = <<"none", "none">>
    /\ \E msgs \in LayoutLists, w \in Widths, h \in Heights :
        \E top \in 0..Len(msgs) :
            tui = MessagesModel(<<"c1">>, 0, 0, h, w, "messages", "c1",
                                msgs, top, top, FALSE, "")

\* calculateVisibleMessageCount as the pane calls it for its window
DoMeasure ==
    /\ clock = 0
    /\ last' = [op |-> "calculateVisibleMessageCount", err |-> "none",
                startIndex |-> tui.messagesViewTop,
                width |-> tui.width - 4,
                availableHeight |-> tui.height - 4,
                count |-> calculateVisibleMessageCount(
                              tui.messages, tui.messagesViewTop,
                              tui.width - 4, tui.height - 4)]
    /\ clock' = clock + 1
    /\ prev' = Prev(last)
    /\ UNCHANGED <<local, remote, g, syncTokenFile, origin, db, beeper, tui, ctui, setup, procs>>

\* renderMessagesView
DoRender ==
    /\ clock = 0
    /\ last' = [op |-> "renderMessagesView", err |-> "none",
                drawn |-> renderMessagesView(tui)]
    /\ clock' = clock + 1
    /\ prev' = Prev(last)
    /\ UNCHANGED <<local, remote, g, syncTokenFile, origin, db, beeper, tui, ctui, setup, procs>>

\* insertDateSeparators on the messages of the pane
DoInsertDateSeparators ==
    /\ clock = 0
    /\ last' = [op |-> "insertDateSeparators", err |-> "none",
                items |-> insertDateSeparators(tui.messages)]
    /\ clock' = clock + 1
    /\ prev' = Prev(last)
    /\ UNCHANGED <<local, remote, g, syncTokenFile, origin, db, beeper, tui, ctui, setup, procs>>

NextLayout ==
    \/ DoMeasure
    \/ DoRender
    \/ DoInsertDateSeparators

SpecLayout == InitLayout /\ [][NextLayout]_vars

-----------------------------------------------------------------------------
(* Messages TUI: messagesModel.Update.  Each operator returns the new       *)
(* model and the command: "none", "quit" (tea.Quit) or "panic" (an index    *)
(* out of range).                                                           *)

DefaultHeight == 25
DefaultWidth == 80

Keys == {"q", "esc", "ctrl+c", "up", "k", "down", "j", "g", "home", "G", "end",
         "d", "enter", "y", "Y", "n", "N", "pgup", "pgdown", "x"}

\* GetMessagesForConversation: the stored messages of the conversation in
\* time order, or an error
GetMessagesForConversation(d, convID, ok) ==
    IF ~ok THEN [msgs |-> <<>>, err |-> TRUE]
    ELSE IF convID \in DOMAIN d.byConv THEN [msgs |-> d.byConv[convID], err |-> FALSE]
    ELSE [msgs |-> <<>>, err |-> FALSE]

\* append(list[:i], list[i+1:]...) for the first i with list[i] = id
RemoveFirst(list, id) ==
    IF \E i \in DOMAIN list : list[i] = id
    THEN LET i == CHOOSE j \in DOMAIN list :
                      list[j] = id /\ \A k \in 1..(j - 1) : list[k] # id
         IN  SubSeq(list, 1, i - 1) \o SubSeq(list, i + 1, Len(list))
    ELSE list

\* newMessagesModel
newMessagesModel(conversations) ==
    MessagesModel(conversations, 0, 0, DefaultHeight, DefaultWidth,
                  "conversations", "", <<>>, 0, 0, FALSE, "")

\* case tea.WindowSizeMsg
UpdateWindowSize(m, width, height) ==
    [m |-> [m EXCEPT !.height = height - 3, !.width = width], cmd |-> "none"]

\* variant: a key that is no answer closes the dialog
UpdateConfirmingDeleteClosingOnAnyKey(m, key) ==
    IF key \in {"y", "Y"}
    THEN LET convs == RemoveFirst(m.conversations, m.deleteConvID)
         IN  [m |-> [m EXCEPT !.conversations = convs,
                              !.cursor = IF @ >= Len(convs) /\ Len(convs) > 0
                                         THEN Len(convs) - 1 ELSE @,
                              !.confirmingDelete = FALSE,
                              !.deleteConvID = ""],
              cmd |-> "none"]
    ELSE [m |-> [m EXCEPT !.confirmingDelete = FALSE, !.deleteConvID = ""],
          cmd |-> "none"]

\* the key handling while confirmingDelete is set
UpdateConfirmingDelete(m, key) ==
    IF key \in {"y", "Y"}
    THEN LET convs == RemoveFirst(m.conversations, m.deleteConvID)
         IN  [m |-> [m EXCEPT !.conversations = convs,
                              !.cursor = IF @ >= Len(convs) /\ Len(convs) > 0
                                         THEN Len(convs) - 1 ELSE @,
                              !.confirmingDelete = FALSE,
                              !.deleteConvID = ""],
              cmd |-> "none"]
    ELSE IF key \in {"n", "N", "esc"}
    THEN [m |-> [m EXCEPT !.confirmingDelete = FALSE, !.deleteConvID = ""],
          cmd |-> "none"]
    ELSE [m |-> m, cmd |-> "none"]

\* the loop of "G"/"end": the candidates are tried from startIdx downwards
RECURSIVE endViewTop(_, _)
endViewTop(m, startIdx) ==
    IF startIdx < 0 THEN m.messagesViewTop
    ELSE LET visibleCount ==
                 calculateVisibleMessageCount(m.messages, startIdx, m.width - 4,
                                              Max2(1, m.height - 4))
         IN  IF startIdx + visibleCount >= Len(m.messages)
             THEN startIdx
             ELSE endViewTop(m, startIdx - 1)

\* variant of "G"/"end": the window starts as early as it can while it
\* still reaches the last message
JumpToEndShowingMost(m) ==
    LET n == Len(m.messages)
        fits == {s \in 0..(n - 1) :
                    s + calculateVisibleMessageCount(m.messages, s, m.width - 4,
                                                     Max2(1, m.height - 4)) >= n}
    IN  [m EXCEPT !.messagesCursor = n - 1,
                  !.messagesViewTop =
                      IF fits = {} THEN @
                      ELSE CHOOSE s \in fits : \A t \in fits : s <= t]

\* case "G", "end" of the messages view
JumpToEnd(m) ==
    [m EXCEPT !.messagesCursor = Len(m.messages) - 1,
              !.messagesViewTop = endViewTop(m, Len(m.messages) - 1)]

\* variant of "q"/"esc": the loaded messages and the cursor are kept
BackToConversationsKeepingMessages(m) ==
    [m EXCEPT !.viewMode = "conversations"]

\* case "q", "esc" of the messages view
BackToConversations(m) ==
    [m EXCEPT !.viewMode = "conversations",
              !.messages = <<>>,
              !.messagesCursor = 0,
              !.messagesViewTop = 0]

\* the key handling of the messages view
UpdateMessagesView(m, key) ==
    IF key \in {"q", "esc"}
    THEN [m |-> BackToConversations(m), cmd |-> "none"]
    ELSE IF key \in {"up", "k"}
    THEN [m |-> IF m.messagesCursor > 0
                THEN [m EXCEPT !.messagesCursor = @ - 1,
                               !.messagesViewTop =
                                   IF m.messagesCursor - 1 < @
                                   THEN m.messagesCursor - 1 ELSE @]
                ELSE m,
          cmd |-> "none"]
    ELSE IF key \in {"down", "j"}
    THEN [m |-> IF m.messagesCursor < Len(m.messages) - 1
                THEN LET availableHeight == Max2(1, m.height - 4)
                         visibleMessages ==
                             calculateVisibleMessageCount(
                                 m.messages, m.messagesViewTop, m.width - 4,
                                 availableHeight)
                     IN  [m EXCEPT !.messagesCursor = @ + 1,
                                   !.messagesViewTop =
                                       IF m.messagesCursor + 1 >= @ + visibleMessages
                                       THEN @ + 1 ELSE @]
                ELSE m,
          cmd |-> "none"]
    ELSE IF key \in {"g", "home"}
    THEN [m |-> [m EXCEPT !.messagesCursor = 0, !.messagesViewTop = 0],
          cmd |-> "none"]
    ELSE IF key \in {"G", "end"}
    THEN [m |-> JumpToEnd(m), cmd |-> "none"]
    ELSE [m |-> m, cmd |-> "none"]

\* case "enter" of the conversations view, cursor on a conversation
OpenConversation(m, d, loadOK) ==
    LET conv == m.conversations[m.cursor + 1]
        got == GetMessagesForConversation(d, conv, loadOK)
    IN  [m EXCEPT !.viewMode = "messages",
                  !.selectedConvID = conv,
                  !.messages = IF ~got.err THEN got.msgs ELSE <<>>,
                  !.messagesCursor = 0,
                  !.messagesViewTop = 0]

\* the key handling of the conversations view
UpdateConversationsView(m, key, d, loadOK) ==
    LET n == Len(m.conversations)
    IN  IF key \in {"q", "ctrl+c"}
        THEN [m |-> m, cmd |-> "quit"]
        ELSE IF key = "d"
        THEN [m |-> IF n > 0 /\ m.cursor < n
                    THEN IF m.cursor < 0 THEN m
                         ELSE [m EXCEPT !.confirmingDelete = TRUE,
                                        !.deleteConvID = m.conversations[m.cursor + 1]]
                    ELSE m,
              cmd |-> IF n > 0 /\ m.cursor < 0 THEN "panic" ELSE "none"]
        ELSE IF key = "enter"
        THEN IF m.cursor < n
             THEN IF m.cursor < 0
                  THEN [m |-> m, cmd |-> "panic"]
                  ELSE [m |-> OpenConversation(m, d, loadOK), cmd |-> "none"]
             ELSE [m |-> m, cmd |-> "none"]
        ELSE IF key \in {"up", "k"}
        THEN [m |-> IF m.cursor > 0
                    THEN [m EXCEPT !.cursor = @ - 1,
                                   !.viewportTop =
                                       IF m.cursor - 1 < @ THEN m.cursor - 1 ELSE @]
                    ELSE m,
              cmd |-> "none"]
        ELSE IF key \in {"down", "j"}
        THEN [m |-> IF m.cursor < n - 1
                    THEN [m EXCEPT !.cursor = @ + 1,
                                   !.viewportTop =
                                       IF m.cursor + 1 >= @ + m.height
                                       THEN m.cursor + 1 - m.height + 1 ELSE @]
                    ELSE m,
              cmd |-> "none"]
        ELSE IF key \in {"g", "home"}
        THEN [m |-> [m EXCEPT !.cursor = 0, !.viewportTop = 0], cmd |-> "none"]
        ELSE IF key \in {"G", "end"}
        THEN [m |-> [m EXCEPT !.cursor = n - 1,
                              !.viewportTop = Max2(0, n - m.height)],
              cmd |-> "none"]
        ELSE IF key = "pgup"
        THEN [m |-> [m EXCEPT !.cursor = Max2(0, @ - m.height),
                              !.viewportTop = Max2(0, @ - m.height)],
              cmd |-> "none"]
        ELSE IF key = "pgdown"
        THEN [m |-> [m EXCEPT !.cursor = Min2(n - 1, @ + m.height),
                              !.viewportTop =
                                  Min2(Max2(0, n - m.height), @ + m.height)],
              cmd |-> "none"]
        ELSE [m |-> m, cmd |-> "none"]

\* case tea.KeyMsg
UpdateKey(m, key, d, loadOK) ==
    IF m.confirmingDelete THEN UpdateConfirmingDelete(m, key)
    ELSE IF m.viewMode = "messages" THEN UpdateMessagesView(m, key)
    ELSE UpdateConversationsView(m, key, d, loadOK)

-----------------------------------------------------------------------------
(* Contacts TUI: contactsModel.Update.  Each operator returns the new       *)
(* model, the command, and the store and the account as DeleteContact left  *)
(* them.                                                                    *)

ContactsModel(contacts, cursor, viewportTop, height, width, confirmingDelete, deleteUID) ==
    [contacts |-> contacts, cursor |-> cursor, viewportTop |-> viewportTop,
     height |-> height, width |-> width,
     confirmingDelete |-> confirmingDelete, deleteUID |-> deleteUID]

\* strings.ToLower(a) < strings.ToLower(b) on the names in use
NameRank(n) == IF n = "Ann" THEN 1 ELSE 2

\* ListContacts sorted by newContactsModel: the records of the store by
\* name, records of one name in any order
SortedContacts(loc) ==
    {[i \in DOMAIN f |-> loc[f[i]]] : f \in
        {h \in Perms(DOMAIN loc) :
            \A i, j \in DOMAIN h :
                i < j => NameRank(loc[h[i]].full_name) <= NameRank(loc[h[j]].full_name)}}

\* newContactsModel
newContactsModel(contactsList) ==
    ContactsModel(contactsList, 0, 0, DefaultHeight, DefaultWidth, FALSE, <<>>)

\* append(list[:i], list[i+1:]...) for the first i with list[i].UID = uid
RemoveFirstContact(list, uid) ==
    IF \E i \in DOMAIN list : list[i].uid = uid
    THEN LET i == CHOOSE j \in DOMAIN list :
                      list[j].uid = uid /\ \A k \in 1..(j - 1) : list[k].uid # uid
         IN  SubSeq(list, 1, i - 1) \o SubSeq(list, i + 1, Len(list))
    ELSE list

\* variant: a confirmed delete only removes the entry from the list, as in
\* the conversations pane
UpdateContactsConfirmingDeleteListOnly(m, key, loc, rem, gv, netOK, rmOK) ==
    IF key \in {"y", "Y"}
    THEN LET list == RemoveFirstContact(m.contacts, m.deleteUID)
         IN  [m |-> [m EXCEPT !.contacts = list,
                              !.cursor = IF @ >= Len(list) /\ Len(list) > 0
                                         THEN Len(list) - 1 ELSE @,
                              !.confirmingDelete = FALSE,
                              !.deleteUID = <<>>],
              cmd |-> "none", local |-> loc, remote |-> rem, err |-> "none",
              trace |-> <<>>]
    ELSE IF key \in {"n", "N", "esc"}
    THEN [m |-> [m EXCEPT !.confirmingDelete = FALSE, !.deleteUID = <<>>],
          cmd |-> "none", local |-> loc, remote |-> rem, err |-> "none",
          trace |-> <<>>]
    ELSE [m |-> m, cmd |-> "none", local |-> loc, remote |-> rem, err |-> "none",
          trace |-> <<>>]

\* the key handling of the contacts pane while confirmingDelete is set
UpdateContactsConfirmingDelete(m, key, loc, rem, gv, netOK, rmOK) ==
    IF key \in {"y", "Y"}
    THEN LET r == DeleteContact(m.deleteUID, loc, rem, gv, netOK, rmOK)
             list == IF r.err = "none"
                     THEN RemoveFirstContact(m.contacts, m.deleteUID)
                     ELSE m.contacts
         IN  [m |-> [m EXCEPT !.contacts = list,
                              !.cursor = IF r.err = "none" /\ @ >= Len(list)
                                            /\ Len(list) > 0
                                         THEN Len(list) - 1 ELSE @,
                              !.confirmingDelete = FALSE,
                              !.deleteUID = <<>>],
              cmd |-> "none", local |-> r.local, remote |-> r.remote,
              err |-> r.err, trace |-> r.trace]
    ELSE IF key \in {"n", "N", "esc"}
    THEN [m |-> [m EXCEPT !.confirmingDelete = FALSE, !.deleteUID = <<>>],
          cmd |-> "none", local |-> loc, remote |-> rem, err |-> "none",
          trace |-> <<>>]
    ELSE [m |-> m, cmd |-> "none", local |-> loc, remote |-> rem, err |-> "none",
          trace |-> <<>>]

\* the normal key handling of the contacts pane
UpdateContactsList(m, key) ==
    LET n == Len(m.contacts)
    IN  IF key \in {"q", "ctrl+c"}
        THEN [m |-> m, cmd |-> "quit"]
        ELSE IF key = "d"
        THEN [m |-> IF n > 0 /\ m.cursor < n
                    THEN IF m.cursor < 0 THEN m
                         ELSE [m EXCEPT !.confirmingDelete = TRUE,
                                        !.deleteUID = m.contacts[m.cursor + 1].uid]
                    ELSE m,
              cmd |-> IF n > 0 /\ m.cursor < 0 THEN "panic" ELSE "none"]
        ELSE IF key \in {"up", "k"}
        THEN [m |-> IF m.cursor > 0
                    THEN [m EXCEPT !.cursor = @ - 1,
                                   !.viewportTop =
                                       IF m.cursor - 1 < @ THEN m.cursor - 1 ELSE @]
                    ELSE m,
              cmd |-> "none"]
        ELSE IF key \in {"down", "j"}
        THEN [m |-> IF m.cursor < n - 1
                    THEN [m EXCEPT !.cursor = @ + 1,
                                   !.viewportTop =
                                       IF m.cursor + 1 >= @ + m.height
                                       THEN m.cursor + 1 - m.height + 1 ELSE @]
                    ELSE m,
              cmd |-> "none"]
        ELSE IF key \in {"g", "home"}
        THEN [m |-> [m EXCEPT !.cursor = 0, !.viewportTop = 0], cmd |-> "none"]
        ELSE IF key \in {"G", "end"}
        THEN [m |-> [m EXCEPT !.cursor = n - 1,
                              !.viewportTop = Max2(0, n - m.height)],
              cmd |-> "none"]
        ELSE IF key = "pgup"
        THEN [m |-> [m EXCEPT !.cursor = Max2(0, @ - m.height),
                              !.viewportTop = Max2(0, @ - m.height)],
              cmd |-> "none"]
        ELSE IF key = "pgdown"
        THEN [m |-> [m EXCEPT !.cursor = Min2(n - 1, @ + m.height),
                              !.viewportTop =
                                  Min2(Max2(0, n - m.height), @ + m.height)],
              cmd |-> "none"]
        ELSE [m |-> m, cmd |-> "none"]

\* contactsModel.Update, case tea.KeyMsg
UpdateContactsKey(m, key, loc, rem, gv, netOK, rmOK) ==
    IF m.confirmingDelete
    THEN UpdateContactsConfirmingDelete(m, key, loc, rem, gv, netOK, rmOK)
    ELSE LET r == UpdateContactsList(m, key)
         IN  [m |-> r.m, cmd |-> r.cmd, local |-> loc, remote |-> rem, err |-> "none",
              trace |-> <<>>]

-----------------------------------------------------------------------------
(* Grouping of a message with its predecessor, on a pane holding the       *)
(* message alone or the predecessor and the message, in either time order  *)

\* minutes around a five-minute distance and around midnight
GroupTimes == {0, 3, 5, 6, 1437, 1440, 1443, 1446}

GroupLists ==
    {<<Msg(s, t, <<40>>)>> : s \in Senders, t \in GroupTimes}
        \cup {<<Msg(s1, t1, <<40>>), Msg(s2, t2, <<40>>)>> :
                 s1 \in Senders, s2 \in Senders, t1 \in GroupTimes, t2 \in GroupTimes}

InitGroup ==
    /\ local = <<>>
    /\ remote = <<>>
    /\ clock = 0
    /\ procs = Nil
    /\ g = NewGoogleContactsProvider
    /\ syncTokenFile = Nil
    /\ origin = <<>>
    /\ db = EmptyDB
    /\ beeper = NoChats
    /\ ctui = Nil
    /\ setup = Nil
    /\ last = [op |-> "none", err |-> "none"]
    /\ prev = <<"none", "none">>
    /\ \E msgs \in GroupLists :
        tui = MessagesModel(<<"c1">>, 0, 0, DefaultHeight, DefaultWidth,
                            "messages", "c1", msgs, 0, 0, FALSE, "")

\* shouldGroupWithPrevious on the last message of the pane and the one
\* before it (nil when there is none)
DoShouldGroup ==
    /\ clock = 0
    /\ LET n == Len(tui.messages)
       IN  last' = [op |-> "shouldGroupWithPrevious", err |-> "none",
                    grouped |-> shouldGroupWithPrevious(
                                    tui.messages[n],
                                    IF n = 1 THEN Nil ELSE <<tui.messages[n - 1]>>)]
    /\ clock' = clock + 1
    /\ prev' = Prev(last)
    /\ UNCHANGED <<local, remote, g, syncTokenFile, origin, db, beeper, tui, ctui, setup, procs>>

NextGroup ==
    \/ DoShouldGroup

SpecGroup == InitGroup /\ [][NextGroup]_vars

-----------------------------------------------------------------------------
(* The two TUIs: key presses and window resizes, one event at a time *)

WindowHeights == {12}
WindowWidths == {80}
ConversationLists == {<<>>, <<"c1">>, <<"c1", "c2">>}

\* the stores the contacts TUI is started on, with the account they mirror
ContactStores ==
    {[local |-> <<>>, remote |-> <<>>],
     [local |-> (<<"1">> :> Contact(<<"1">>, "e1", "Ann", Nil, <<0>>))
                  @@ (<<"a", "-", "4">> :> Contact(<<"a", "-", "4">>, "", "Bob", <<0>>, Nil)),
      remote |-> (<<"1">> :> [etag |-> "e1", displayName |-> "Ann"])],
     [local |-> [id \in ProviderIds |-> Contact(id, "e1", "Ann", Nil, <<0>>)],
      remote |-> [id \in ProviderIds |-> [etag |-> "e1", displayName |-> "Ann"]]]}

\* runMessagesTUI: the conversations of the store, the first with messages
\* (the longer message lists are browsed with that conversation alone)
InitMessagesTUI ==
    /\ local = <<>>
    /\ remote = <<>>
    /\ ctui = Nil
    /\ \E convs \in ConversationLists, n \in 0..MaxMsgs :
        \E msgs \in MessageLists(n) :
            /\ (convs = <<>>) => (msgs = <<>>)
            /\ (Len(convs) > 1) => (Len(msgs) <= 1)
            /\ db = [byConv |-> [c \in Range(convs) |->
                                    IF c = "c1" THEN msgs ELSE <<>>]]
            /\ tui = newMessagesModel(convs)

\* runContactsTUI: the contacts of the store, sorted by name
InitContactsTUI ==
    /\ tui = Nil
    /\ db = EmptyDB
    /\ \E st \in ContactStores :
        /\ local = st.local
        /\ remote = st.remote
        /\ \E list \in SortedContacts(st.local) : ctui = newContactsModel(list)

\* one of the two programs is started
InitView ==
    /\ clock = 0
    /\ procs = Nil
    /\ g = Configured(TRUE)
    /\ syncTokenFile = Nil
    /\ origin = <<>>
    /\ beeper = NoChats
    /\ setup = Nil
    /\ last = [op |-> "none", err |-> "none", cmd |-> "none"]
    /\ prev = <<"none", "none">>
    /\ \/ InitMessagesTUI
       \/ InitContactsTUI

\* the program has not quit or crashed
Running == last.cmd = "none"

DoKey ==
    /\ Running
    /\ tui # Nil
    /\ \E key \in Keys, loadOK \in BOOLEAN :
        /\ (key # "enter" \/ tui.confirmingDelete \/ tui.viewMode = "messages")
              => loadOK
        /\ LET r == UpdateKey(tui, key, db, loadOK)
           IN  /\ tui' = r.m
               /\ last' = [op |-> "key", err |-> "none", cmd |-> r.cmd,
                           key |-> key, loadOK |-> loadOK, trace |-> <<>>]
    /\ UNCHANGED <<local, remote, clock, g, syncTokenFile, origin, db, beeper, ctui, setup, prev, procs>>

DoWindowSize ==
    /\ Running
    /\ tui # Nil
    /\ \E w \in WindowWidths, h \in WindowHeights :
        LET r == UpdateWindowSize(tui, w, h)
        IN  /\ tui' = r.m
            /\ last' = [op |-> "resize", err |-> "none", cmd |-> r.cmd]
    /\ UNCHANGED <<local, remote, clock, g, syncTokenFile, origin, db, beeper, ctui, setup, prev, procs>>

DoContactsKey ==
    /\ Running
    /\ ctui # Nil
    /\ \E key \in Keys, netOK \in BOOLEAN, rmOK \in BOOLEAN :
        /\ ~(ctui.confirmingDelete /\ key \in {"y", "Y"}) => (netOK /\ rmOK)
        /\ ~netOK => rmOK
        /\ LET r == UpdateContactsKey(ctui, key, local, remote, g, netOK, rmOK)
           IN  /\ ctui' = r.m
               /\ local' = r.local
               /\ remote' = r.remote
               /\ last' = [op |-> "key", err |-> r.err, cmd |-> r.cmd,
                           key |-> key, loadOK |-> TRUE, trace |-> r.trace]
    /\ UNCHANGED <<clock, g, syncTokenFile, origin, db, beeper, tui, setup, prev, procs>>

DoContactsWindowSize ==
    /\ Running
    /\ ctui # Nil
    /\ \E w \in WindowWidths, h \in WindowHeights :
        LET r == UpdateWindowSize(ctui, w, h)
        IN  /\ ctui' = r.m
            /\ last' = [op |-> "resize", err |-> "none", cmd |-> r.cmd]
    /\ UNCHANGED <<local, remote, clock, g, syncTokenFile, origin, db, beeper, tui, setup, prev, procs>>

NextView ==
    \/ DoKey
    \/ DoWindowSize
    \/ DoContactsKey
    \/ DoContactsWindowSize

SpecView == InitView /\ [][NextView]_vars

-----------------------------------------------------------------------------
(* The two list panes in a terminal a few rows high, after the window size *)
(* has arrived and with no later resize                                    *)

ListWindowHeights == {4, 5}

LongConversationLists ==
    {<<"c1">>, <<"c1", "c2">>, <<"c1", "c2", "c3">>}

InitList ==
    /\ clock = 0
    /\ procs = Nil
    /\ g = Configured(TRUE)
    /\ syncTokenFile = Nil
    /\ origin = <<>>
    /\ beeper = NoChats
    /\ setup = Nil
    /\ last = [op |-> "none", err |-> "none", cmd |-> "none"]
    /\ prev = <<"none", "none">>
    /\ \E h \in ListWindowHeights :
        \/ /\ local = <<>>
           /\ remote = <<>>
           /\ ctui = Nil
           /\ \E convs \in LongConversationLists :
                /\ db = [byConv |-> [c \in Range(convs) |-> <<>>]]
                /\ tui = UpdateWindowSize(newMessagesModel(convs), DefaultWidth, h).m
        \/ /\ tui = Nil
           /\ db = EmptyDB
           /\ \E st \in ContactStores :
                /\ local = st.local
                /\ remote = st.remote
                /\ \E list \in SortedContacts(st.local) :
                     ctui = UpdateWindowSize(newContactsModel(list), DefaultWidth, h).m

NextList ==
    \/ DoKey
    \/ DoContactsKey

SpecList == InitList /\ [][NextList]_vars

-----------------------------------------------------------------------------
(* Contact.PrimaryPhone, on a store holding one contact with phone numbers *)

MaxPhones == 3      \* phone numbers of a contact

PhoneTypes == {"mobile", "cell", "home", "work"}
PhoneValues == {"111", "222"}

\* PhoneNumber
PhoneNumber(value, type) == [value |-> value, type |-> type]

\* the lists of n phone numbers
RECURSIVE PhoneLists(_)
PhoneLists(n) ==
    IF n = 0 THEN {<<>>}
    ELSE {Append(l, PhoneNumber(v, t)) :
              l \in PhoneLists(n - 1), v \in PhoneValues, t \in PhoneTypes}

\* the p.Type == "mobile" || p.Type == "cell" loop from entry i on
RECURSIVE firstMobileFrom(_, _)
firstMobileFrom(phones, i) ==
    IF i > Len(phones) THEN <<>>
    ELSE IF phones[i].type = "mobile" \/ phones[i].type = "cell"
    THEN <<phones[i].value>>
    ELSE firstMobileFrom(phones, i + 1)

\* variant: only the type "mobile" is preferred
PrimaryPhoneMobileOnly(c) ==
    IF Len(c.phone_numbers) = 0 THEN ""
    ELSE IF \E i \in DOMAIN c.phone_numbers : c.phone_numbers[i].type = "mobile"
    THEN c.phone_numbers[CHOOSE i \in DOMAIN c.phone_numbers :
                            /\ c.phone_numbers[i].type = "mobile"
                            /\ \A j \in 1..(i - 1) :
                                  c.phone_numbers[j].type # "mobile"].value
    ELSE c.phone_numbers[1].value

\* Contact.PrimaryPhone
PrimaryPhone(c) ==
    IF Len(c.phone_numbers) = 0 THEN ""
    ELSE LET found == firstMobileFrom(c.phone_numbers, 1)
         IN  IF found # <<>> THEN found[1] ELSE c.phone_numbers[1].value

InitPhone ==
    /\ remote = <<>>
    /\ clock = 0
    /\ procs = Nil
    /\ g = NewGoogleContactsProvider
    /\ syncTokenFile = Nil
    /\ origin = <<>>
    /\ db = EmptyDB
    /\ beeper = NoChats
    /\ tui = Nil
    /\ ctui = Nil
    /\ setup = Nil
    /\ last = [op |-> "none", err |-> "none"]
    /\ prev = <<"none", "none">>
    /\ \E n \in 0..MaxPhones :
        \E phones \in PhoneLists(n) :
            local = (<<"1">> :> [uid |-> <<"1">>, full_name |-> "Ann",
                                 phone_numbers |-> phones])

\* PrimaryPhone of the contact, as contacts list prints it
DoPrimaryPhone ==
    /\ clock = 0
    /\ last' = [op |-> "PrimaryPhone", err |-> "none",
                value |-> PrimaryPhone(local[<<"1">>])]
    /\ clock' = clock + 1
    /\ prev' = Prev(last)
    /\ UNCHANGED <<local, remote, g, syncTokenFile, origin, db, beeper, tui, ctui, setup, procs>>

NextPhone ==
    \/ DoPrimaryPhone

SpecPhone == InitPhone /\ [][NextPhone]_vars

-----------------------------------------------------------------------------
(* The setup flows: contacts init and messages init.  A flow runs from     *)
(* prompt to prompt; each action answers the prompt the flow is waiting at *)
(* and runs the code up to the next prompt or to the return.  setup.files  *)
(* is the dunbar directory (Nil: no such file, <<data>>: its content),     *)
(* setup.written the files this run has written.                          *)

FileNames == {"config.json", "google_creds.json", "beeper_credentials.json"}

ClientIDs == {"id1", "id2", "id3"}
ClientSecrets == {"s1", "s2"}
AuthCodes == {"code1", "code2", "code3"}
AccessTokens == {"t1", "t2", "t3"}

\* GoogleCredentials / BeeperCredentials as stored
GoogleCredentials(clientID, clientSecret, refreshToken) ==
    [ClientID |-> clientID, ClientSecret |-> clientSecret,
     RefreshToken |-> refreshToken]

BeeperCredentials(accessToken) == [AccessToken |-> accessToken]

NoFiles == [f \in FileNames |-> Nil]

\* os.WriteFile
WriteFile(su, name, data) ==
    [su EXCEPT !.files[name] = <<data>>, !.written = @ \cup {name}]

\* the flow returns
Return(su, result) == [su EXCEPT !.pc = "done", !.result = result]

\* existingCreds != nil && existingCreds.ClientID != ""
hasExistingCreds(su, name) == su.files[name] # Nil

\* the directories a flow can be started in
SetupDirs(flow) ==
    IF flow = "contacts"
    THEN {[NoFiles EXCEPT !["config.json"] = c, !["google_creds.json"] = k] :
             c \in {Nil, <<"google">>},
             k \in {Nil, <<GoogleCredentials("id0", "s0", "")>>,
                    <<GoogleCredentials("id0", "s0", "code0")>>}}
    ELSE {[NoFiles EXCEPT !["beeper_credentials.json"] = k] :
             k \in {Nil, <<BeeperCredentials("t0")>>}}

InitSetup ==
    /\ local = <<>>
    /\ remote = <<>>
    /\ clock = 0
    /\ procs = Nil
    /\ g = Configured(TRUE)
    /\ syncTokenFile = Nil
    /\ origin = <<>>
    /\ db = EmptyDB
    /\ beeper = NoChats
    /\ tui = Nil
    /\ ctui = Nil
    /\ last = [op |-> "none", input |-> "", err |-> "none"]
    /\ prev = <<"none", "none">>
    /\ \E flow \in {"contacts", "messages"} :
        \E files \in SetupDirs(flow) :
            setup = [flow |-> flow, pc |-> "select", files |-> files,
                     written |-> {}, result |-> "running"]

\* ContactsInit: the provider selection; on a selection config.json is
\* written and initGoogleProvider runs up to its first prompt
SelectContactsProvider ==
    /\ setup.flow = "contacts"
    /\ setup.pc = "select"
    /\ \E cancelled \in BOOLEAN, writeOK \in BOOLEAN :
        /\ cancelled => writeOK
        /\ setup' = IF cancelled THEN Return(setup, "cancelled")
                    ELSE IF ~writeOK THEN Return(setup, "failed")
                    ELSE [WriteFile(setup, "config.json", "google") EXCEPT
                            !.pc = IF hasExistingCreds(setup, "google_creds.json")
                                   THEN "confirm" ELSE "credentials"]
        /\ last' = [op |-> "select", input |-> "google",
                    err |-> IF cancelled THEN "cancelled"
                            ELSE IF writeOK THEN "none" ELSE "write"]
    /\ UNCHANGED <<local, remote, clock, g, syncTokenFile, origin, db, beeper, tui, ctui, prev, procs>>

\* initGoogleProvider: "Existing credentials found"
ConfirmGoogle ==
    /\ setup.flow = "contacts"
    /\ setup.pc = "confirm"
    /\ \E answer \in {"cancel", "delete", "keep"} :
        /\ setup' = IF answer = "cancel" THEN Return(setup, "cancelled")
                    ELSE IF answer = "keep" THEN [setup EXCEPT !.pc = "reauthCode"]
                    ELSE [setup EXCEPT !.pc = "credentials"]
        /\ last' = [op |-> "confirm", input |-> answer,
                    err |-> IF answer = "cancel" THEN "cancelled" ELSE "none"]
    /\ UNCHANGED <<local, remote, clock, g, syncTokenFile, origin, db, beeper, tui, ctui, prev, procs>>

\* initGoogleProvider: the client ID and secret form, then SaveCredentials
EnterGoogleCredentials ==
    /\ setup.flow = "contacts"
    /\ setup.pc = "credentials"
    /\ \/ /\ setup' = Return(setup, "cancelled")
          /\ last' = [op |-> "credentials", input |-> "", err |-> "cancelled"]
       \/ \E id \in ClientIDs, secret \in ClientSecrets, writeOK \in BOOLEAN :
          /\ setup' = IF ~writeOK THEN Return(setup, "failed")
                      ELSE [WriteFile(setup, "google_creds.json",
                                      GoogleCredentials(id, secret, ""))
                               EXCEPT !.pc = "authCode"]
          /\ last' = [op |-> "credentials", input |-> id,
                      err |-> IF writeOK THEN "none" ELSE "write"]
    /\ UNCHANGED <<local, remote, clock, g, syncTokenFile, origin, db, beeper, tui, ctui, prev, procs>>

\* ExchangeAuthCode: on success the tokens are added to the stored
\* credentials
ExchangeAuthCode(su, code, ok, writeOK) ==
    IF ~ok \/ ~writeOK THEN Return(su, "failed")
    ELSE LET creds == su.files["google_creds.json"][1]
         IN  Return(WriteFile(su, "google_creds.json",
                              [creds EXCEPT !.RefreshToken = code]), "ok")

\* initGoogleProvider: the authorization code prompt
EnterAuthorizationCode ==
    /\ setup.flow = "contacts"
    /\ setup.pc = "authCode"
    /\ \/ /\ setup' = Return(setup, "cancelled")
          /\ last' = [op |-> "authCode", input |-> "", err |-> "cancelled"]
       \/ \E code \in AuthCodes, ok \in BOOLEAN, writeOK \in BOOLEAN :
          /\ ~ok => writeOK
          /\ setup' = ExchangeAuthCode(setup, code, ok, writeOK)
          /\ last' = [op |-> "authCode", input |-> code,
                      err |-> IF ~ok THEN "exchange"
                              ELSE IF writeOK THEN "none" ELSE "write"]
    /\ UNCHANGED <<local, remote, clock, g, syncTokenFile, origin, db, beeper, tui, ctui, prev, procs>>

\* reauthorizeGoogleProvider: the authorization code prompt
EnterReauthorizationCode ==
    /\ setup.flow = "contacts"
    /\ setup.pc = "reauthCode"
    /\ \/ /\ setup' = Return(setup, "cancelled")
          /\ last' = [op |-> "reauthCode", input |-> "", err |-> "cancelled"]
       \/ \E code \in AuthCodes, ok \in BOOLEAN, writeOK \in BOOLEAN :
          /\ ~ok => writeOK
          /\ setup' = ExchangeAuthCode(setup, code, ok, writeOK)
          /\ last' = [op |-> "reauthCode", input |-> code,
                      err |-> IF ~ok THEN "exchange"
                              ELSE IF writeOK THEN "none" ELSE "write"]
    /\ UNCHANGED <<local, remote, clock, g, syncTokenFile, origin, db, beeper, tui, ctui, prev, procs>>

\* MessagesInit: the provider selection; on a selection initBeeperProvider
\* runs up to its first prompt
SelectMessagesProvider ==
    /\ setup.flow = "messages"
    /\ setup.pc = "select"
    /\ \E cancelled \in BOOLEAN :
        /\ setup' = IF cancelled
                    THEN Return(setup, "cancelled")
                    ELSE [setup EXCEPT
                            !.pc = IF hasExistingCreds(setup, "beeper_credentials.json")
                                   THEN "confirm" ELSE "token"]
        /\ last' = [op |-> "select", input |-> "beeper",
                    err |-> IF cancelled THEN "cancelled" ELSE "none"]
    /\ UNCHANGED <<local, remote, clock, g, syncTokenFile, origin, db, beeper, tui, ctui, prev, procs>>

\* initBeeperProvider: "Existing credentials found"
ConfirmBeeper ==
    /\ setup.flow = "messages"
    /\ setup.pc = "confirm"
    /\ \E answer \in {"cancel", "delete", "keep"} :
        /\ setup' = IF answer = "cancel" THEN Return(setup, "cancelled")
                    ELSE IF answer = "keep" THEN Return(setup, "ok")
                    ELSE [setup EXCEPT !.pc = "token"]
        /\ last' = [op |-> "confirm", input |-> answer,
                    err |-> IF answer = "cancel" THEN "cancelled" ELSE "none"]
    /\ UNCHANGED <<local, remote, clock, g, syncTokenFile, origin, db, beeper, tui, ctui, prev, procs>>

\* initBeeperProvider: the access token form, then SaveCredentials,
\* Initialize and the test Sync
EnterAccessToken ==
    /\ setup.flow = "messages"
    /\ setup.pc = "token"
    /\ \/ /\ setup' = Return(setup, "cancelled")
          /\ last' = [op |-> "token", input |-> "", err |-> "cancelled"]
       \/ \E token \in AccessTokens, writeOK \in BOOLEAN, syncOK \in BOOLEAN :
          /\ ~writeOK => syncOK
          /\ setup' = IF ~writeOK THEN Return(setup, "failed")
                      ELSE Return(WriteFile(setup, "beeper_credentials.json",
                                            BeeperCredentials(token)),
                                  IF syncOK THEN "ok" ELSE "failed")
          /\ last' = [op |-> "token", input |-> token,
                      err |-> IF ~writeOK THEN "write"
                              ELSE IF syncOK THEN "none" ELSE "sync"]
    /\ UNCHANGED <<local, remote, clock, g, syncTokenFile, origin, db, beeper, tui, ctui, prev, procs>>

NextSetup ==
    \/ SelectContactsProvider
    \/ ConfirmGoogle
    \/ EnterGoogleCredentials
    \/ EnterAuthorizationCode
    \/ EnterReauthorizationCode
    \/ SelectMessagesProvider
    \/ ConfirmBeeper
    \/ EnterAccessToken

SpecSetup == InitSetup /\ [][NextSetup]_vars

-----------------------------------------------------------------------------
(* Two invocations of the CLI on one data directory: `contacts sync` and   *)
(* `contacts delete <uid>`.  Each process runs from one request or file    *)
(* operation to the next; nothing orders the steps of the two processes.   *)
(* procs.order is the history of the steps taken.                          *)

\* the directory and the account the two commands are started on
RaceStarts ==
    {[local |-> loc, remote |-> rem] :
        rem \in {[id \in S |-> [etag |-> "e1", displayName |-> "Ann"]] :
                    S \in (SUBSET ProviderIds) \ {{}}},
        loc \in {<<>>} \cup
                {[id \in S |-> Contact(id, "e1", "Ann", Nil, <<0>>)] :
                    S \in (SUBSET ProviderIds) \ {{}}}}

InitRace ==
    /\ clock = 1
    /\ g = Configured(TRUE)
    /\ syncTokenFile = Nil
    /\ origin = <<>>
    /\ db = EmptyDB
    /\ beeper = NoChats
    /\ tui = Nil
    /\ ctui = Nil
    /\ setup = Nil
    /\ last = [op |-> "none", err |-> "none"]
    /\ prev = <<"none", "none">>
    /\ \E st \in RaceStarts :
        /\ local = st.local
        /\ remote = st.remote
    /\ \E uid \in ProviderIds :
        procs = [sync |-> [pc |-> "fetch", fetched |-> <<>>, i |-> 1, err |-> "none"],
                 del |-> [pc |-> "provider", uid |-> uid, err |-> "none"],
                 order |-> <<>>]

\* SyncContacts: cm.provider.FetchContacts()
SyncFetch(sp, gv, rem, now, refreshOK) ==
    LET f == FetchContacts(gv, rem, now, refreshOK, 0)
    IN  IF f.err # "none"
        THEN [sp EXCEPT !.pc = "done", !.err = "fetch"]
        ELSE [sp EXCEPT !.pc = IF Len(f.contacts) = 0 THEN "done" ELSE "write",
                        !.fetched = f.contacts]

\* variant: the sync writes a fetched contact only over an existing file
SyncWriteOverExisting(sp, loc, now, persistOK) ==
    LET c == sp.fetched[sp.i]
        r == IF c.uid \in DOMAIN loc
             THEN writeContactWithoutModifyingTimestamp(c, loc, now, <<>>, persistOK)
             ELSE [local |-> loc, err |-> "none"]
    IN  [local |-> r.local,
         sp |-> IF r.err # "none"
                THEN [sp EXCEPT !.pc = "done", !.err = "write"]
                ELSE [sp EXCEPT !.i = @ + 1,
                                !.pc = IF sp.i + 1 > Len(sp.fetched)
                                       THEN "done" ELSE "write"]]

\* SyncContacts: one turn of the loop over remoteContacts
SyncWrite(sp, loc, now, persistOK) ==
    LET r == writeContactWithoutModifyingTimestamp(
                 sp.fetched[sp.i], loc, now, <<>>, persistOK)
    IN  [local |-> r.local,
         sp |-> IF r.err # "none"
                THEN [sp EXCEPT !.pc = "done", !.err = "write"]
                ELSE [sp EXCEPT !.i = @ + 1,
                                !.pc = IF sp.i + 1 > Len(sp.fetched)
                                       THEN "done" ELSE "write"]]

\* DeleteContact: cm.provider.DeleteContact(uid)
DeleteAtProvider(dp, gv, rem, netOK) ==
    IF ~IsProviderContact(dp.uid)
    THEN [remote |-> rem, dp |-> [dp EXCEPT !.pc = "remove"]]
    ELSE LET del == GoogleDeleteContact(dp.uid, gv, rem, netOK)
         IN  [remote |-> del.remote,
              dp |-> IF del.err # "none"
                     THEN [dp EXCEPT !.pc = "done", !.err = "provider"]
                     ELSE [dp EXCEPT !.pc = "remove"]]

\* DeleteContact: os.Remove(filePath)
DeleteLocalFile(dp, loc, rmOK) ==
    IF dp.uid \notin DOMAIN loc
    THEN [local |-> loc, dp |-> [dp EXCEPT !.pc = "done", !.err = "notfound"]]
    ELSE IF ~rmOK
    THEN [local |-> loc, dp |-> [dp EXCEPT !.pc = "done", !.err = "remove"]]
    ELSE [local |-> Drop(loc, dp.uid), dp |-> [dp EXCEPT !.pc = "done"]]

DoSyncFetch ==
    /\ procs.sync.pc = "fetch"
    /\ \E refreshOK \in BOOLEAN :
        /\ procs' = [procs EXCEPT
                        !.sync = SyncFetch(procs.sync, g, remote, Now, refreshOK),
                        !.order = Append(@, "fetch")]
        /\ last' = [op |-> "fetch", err |-> IF refreshOK THEN "none" ELSE "fetch"]
    /\ clock' = clock + 1
    /\ UNCHANGED <<local, remote, g, syncTokenFile, origin, db, beeper, tui, ctui, setup, prev>>

DoSyncWrite ==
    /\ procs.sync.pc = "write"
    /\ \E persistOK \in BOOLEAN :
        LET r == SyncWrite(procs.sync, local, Now, persistOK)
        IN  /\ local' = r.local
            /\ procs' = [procs EXCEPT !.sync = r.sp, !.order = Append(@, "write")]
            /\ last' = [op |-> "write", err |-> r.sp.err]
    /\ clock' = clock + 1
    /\ UNCHANGED <<remote, g, syncTokenFile, origin, db, beeper, tui, ctui, setup, prev>>

DoDeleteAtProvider ==
    /\ procs.del.pc = "provider"
    /\ \E netOK \in BOOLEAN :
        LET r == DeleteAtProvider(procs.del, g, remote, netOK)
        IN  /\ remote' = r.remote
            /\ procs' = [procs EXCEPT !.del = r.dp, !.order = Append(@, "provider")]
            /\ last' = [op |-> "provider", err |-> r.dp.err]
    /\ clock' = clock + 1
    /\ UNCHANGED <<local, g, syncTokenFile, origin, db, beeper, tui, ctui, setup, prev>>

DoDeleteLocalFile ==
    /\ procs.del.pc = "remove"
    /\ \E rmOK \in BOOLEAN :
        LET r == DeleteLocalFile(procs.del, local, rmOK)
        IN  /\ local' = r.local
            /\ procs' = [procs EXCEPT !.del = r.dp, !.order = Append(@, "remove")]
            /\ last' = [op |-> "remove", err |-> r.dp.err]
    /\ clock' = clock + 1
    /\ UNCHANGED <<remote, g, syncTokenFile, origin, db, beeper, tui, ctui, setup, prev>>

NextRace ==
    \/ DoSyncFetch
    \/ DoSyncWrite
    \/ DoDeleteAtProvider
    \/ DoDeleteLocalFile

SpecRace == InitRace /\ [][NextRace]_vars

-----------------------------------------------------------------------------
(* Claims about the contact store *)

\* position of the first entry of a call in an effect log (0: none)
FirstAt(trace, call) ==
    IF \E i \in DOMAIN trace : trace[i].call = call
    THEN CHOOSE i \in DOMAIN trace :
            /\ trace[i].call = call
            /\ \A j \in DOMAIN trace : trace[j].call = call => i <= j
    ELSE 0

\* the step just taken was a DeleteContact of a uid without a hyphen
DeletedProviderUid == last'.op = "DeleteContact" /\ ~HasHyphen(last'.uid)

\* C1: DeleteContact(uid) for a uid without a hyphen asks the provider to
\* delete before any local file removal; when the provider delete fails it
\* returns an error, removes nothing and leaves the local record unchanged.
C1_DeleteProviderFirst ==
    [][DeletedProviderUid =>
          /\ FirstAt(last'.trace, "provider.DeleteContact") = 1
          /\ FirstAt(last'.trace, "os.Remove") # 1
          /\ ~last'.trace[1].ok =>
                /\ last'.err # "none"
                /\ FirstAt(last'.trace, "os.Remove") = 0
                /\ local' = local]_vars

C1_Witness ==
    /\ last.op = "DeleteContact"
    /\ ~HasHyphen(last.uid)
    /\ last.err = "provider"
    /\ last.uid \in DOMAIN local

\* the provider and the local store agree on uid
Agree(uid, loc, rem) == (uid \in DOMAIN loc) <=> (uid \in DOMAIN rem)

\* C2 (as stated): whenever the two sides agree on a uid without a hyphen
\* before DeleteContact, they agree on it after the call, whatever it returns.
C2_DeleteNeverDiverges ==
    [][(DeletedProviderUid /\ Agree(last'.uid, local, remote))
          => Agree(last'.uid, local', remote')]_vars

\* C2 (amended): after the call the uid is never at the provider while
\* absent locally; the two sides agree unless the provider delete succeeded
\* and the local removal then failed, in which case the call returns an
\* error and the record is gone at the provider and still present locally.
C2_DeleteNeverLeavesRemoteOnly ==
    [][(DeletedProviderUid /\ Agree(last'.uid, local, remote)) =>
          /\ ~(last'.uid \in DOMAIN remote' /\ last'.uid \notin DOMAIN local')
          /\ \/ Agree(last'.uid, local', remote')
             \/ /\ last'.err = "remove"
                /\ last'.uid \in DOMAIN local'
                /\ last'.uid \notin DOMAIN remote']_vars

C2_Witness ==
    /\ last.op = "DeleteContact"
    /\ ~HasHyphen(last.uid)
    /\ last.err = "remove"
    /\ last.uid \in DOMAIN local
    /\ last.uid \notin DOMAIN remote

\* C3 (as stated): SyncContacts leaves the last_modified of every record
\* that was stored before the run as it was.
C3_SyncKeepsLastModified ==
    [][last'.op = "SyncContacts" =>
          \A u \in DOMAIN local :
              /\ u \in DOMAIN local'
              /\ local'[u].last_modified = local[u].last_modified]_vars

\* C4: WriteContact stamps last_modified with the write time and stores the
\* last_synced the contact carried; it changes no stored last_synced and a
\* record it creates has none.
C4_WriteKeepsLastSynced ==
    [][last'.op = "WriteContact" =>
          IF last'.err = "persist"
          THEN local' = local
          ELSE /\ local'[last'.uid].last_modified = <<clock>>
               /\ local'[last'.uid].last_synced = last'.contacts[1].last_synced
               /\ \A u \in DOMAIN local' :
                     local'[u].last_synced =
                        IF u \in DOMAIN local THEN local[u].last_synced ELSE Nil]_vars

C4_Witness ==
    /\ last.op = "WriteContact"
    /\ last.err = "none"
    /\ local[last.uid].last_synced # Nil
    /\ local[last.uid].last_modified # local[last.uid].last_synced

\* a record without its last_synced
Unsynced(c) == [c EXCEPT !.last_synced = Nil]

\* C5: a SyncContacts run that directly follows a successful one (nothing
\* changed at the provider in between) leaves the same uids and, for every
\* uid, the same record up to last_synced.
C5_SyncIdempotent ==
    [][(last.op = "SyncContacts" /\ last.err = "none"
            /\ last'.op = "SyncContacts" /\ clock' = clock + 1) =>
          /\ DOMAIN local' = DOMAIN local
          /\ \A u \in DOMAIN local : Unsynced(local'[u]) = Unsynced(local[u])]_vars

C5_Witness ==
    /\ last.op = "SyncContacts" /\ last.err = "none"
    /\ prev = <<"SyncContacts", "none">>
    /\ \E u \in DOMAIN local : local[u].last_synced = <<clock - 1>>

\* C6: WriteContact persists before it pushes.  When the push fails it
\* returns an error with the new record stored (GetContact returns it) and
\* the provider unchanged; when the persist fails the provider is not called.
C6_WriteNotTransactional ==
    [][last'.op = "WriteContact" =>
          /\ last'.err = "provider" =>
                /\ FirstAt(last'.trace, "os.WriteFile") = 1
                /\ FirstAt(last'.trace, "provider.WriteContact") = 2
                /\ GetContact(local', last'.uid) =
                      <<[last'.contacts[1] EXCEPT !.uid = last'.uid,
                                                  !.last_modified = <<clock>>]>>
                /\ remote' = remote
          /\ last'.err = "persist" =>
                /\ FirstAt(last'.trace, "provider.WriteContact") = 0
                /\ remote' = remote]_vars

C6_Witness ==
    /\ last.op = "WriteContact"
    /\ last.err = "provider"
    /\ last.uid \in DOMAIN local
    /\ last.uid \in DOMAIN remote
    /\ local[last.uid].full_name # remote[last.uid].displayName

\* C8: a uid generated by WriteContact contains a hyphen; a record stored by
\* SyncContacts has the trailing segment of a provider resource name as its
\* uid, without a hyphen; so DeleteContact routes the latter to the provider
\* and the former not.
C8_UidProvenance ==
    \A u \in DOMAIN local :
        /\ origin[u] = "generated" => (HasHyphen(u) /\ ~IsProviderContact(u))
        /\ origin[u] = "sync" =>
              /\ u \in ProviderIds
              /\ u = LastSegment(ResourceName(u))
              /\ ~HasHyphen(u)
              /\ IsProviderContact(u)

C8_Witness ==
    /\ \E u \in DOMAIN local : origin[u] = "generated"
    /\ \E u \in DOMAIN local : origin[u] = "sync"

-----------------------------------------------------------------------------
(* Claims about batch writes *)

\* the effect log of a batch that attempted the records with uids us, of
\* which the last one failed with err (or none failed)
BatchLog(us, err) ==
    LET done == IF err = "none" THEN Len(us) ELSE Len(us) - 1
        full == [i \in 1..(2 * done) |->
                    IF i % 2 = 1
                    THEN Ev("os.WriteFile", us[(i + 1) \div 2], TRUE)
                    ELSE Ev("provider.WriteContact", us[i \div 2], TRUE)]
    IN  IF err = "none" THEN full
        ELSE IF err = "persist"
        THEN Append(full, Ev("os.WriteFile", us[Len(us)], FALSE))
        ELSE full \o <<Ev("os.WriteFile", us[Len(us)], TRUE),
                       Ev("provider.WriteContact", us[Len(us)], FALSE)>>

\* C7: WriteContacts writes the records in list order and stops at the first
\* one whose write fails: the records before it stay persisted and pushed,
\* the records after it are neither written locally nor pushed, and nothing
\* is rolled back.
C7_BatchAbortsAtFirstFailure ==
    [][last'.op = "WriteContacts" =>
          LET cs == last'.contacts
              us == last'.uids
              k == Len(us)
              stored == {i \in 1..k : i < k \/ last'.err # "persist"}
          IN  /\ k \in 1..Len(cs)
              /\ last'.err = "none" => k = Len(cs)
              /\ \A i \in 1..k : cs[i].uid # <<>> => us[i] = cs[i].uid
              /\ last'.trace = BatchLog(us, last'.err)
              /\ \A u \in DOMAIN local \cup DOMAIN local' :
                    LET W == {i \in stored : us[i] = u}
                    IN  IF W = {}
                        THEN /\ u \in DOMAIN local
                             /\ u \in DOMAIN local'
                             /\ local'[u] = local[u]
                        ELSE /\ u \in DOMAIN local'
                             /\ local'[u] =
                                  [cs[Max(W)] EXCEPT !.uid = u,
                                        !.last_modified = <<clock + Max(W) - 1>>]
              /\ \A i \in 1..k :
                    (i < k \/ last'.err = "none") =>
                        /\ us[i] \in DOMAIN local'
                        /\ HasHyphen(us[i]) \/ us[i] \in DOMAIN remote']_vars

C7_Witness ==
    /\ last.op = "WriteContacts"
    /\ last.err # "none"
    /\ Len(last.contacts) = 3
    /\ Len(last.uids) = 2
    /\ last.uids[1] \in DOMAIN local

-----------------------------------------------------------------------------
(* Claims about the Google provider *)

\* the uids of a fetch result, in order
FetchedUids(contacts) == [i \in DOMAIN contacts |-> contacts[i].uid]

\* C9 (as stated): Initialize reads the persisted sync token; every
\* successful FetchContacts persists a sync token; with no token persisted
\* the fetch is a full fetch from the beginning.
C9_SyncTokenPersistedAfterFetch ==
    [][/\ (last'.op = "Initialize" /\ last'.err = "none" /\ syncTokenFile # Nil)
            => GetSyncToken(g') = syncTokenFile
       /\ (last'.op = "FetchContacts" /\ last'.err = "none") =>
            /\ syncTokenFile' # Nil
            /\ GetSyncToken(g') = syncTokenFile'
       /\ (last'.op = "FetchContacts" /\ last'.err = "none" /\ syncTokenFile = Nil)
            => FetchedUids(last'.fetched)
                  = SelectSeq(ProviderIdSeq, LAMBDA id : id \in DOMAIN remote)]_vars

-----------------------------------------------------------------------------
(* Claims about message sync *)

\* C10: MessageManager.Sync saves nothing unless the provider returned its
\* snapshot without error; it then saves the conversations before the
\* messages, and saves no message when saving the conversations failed.
C10_SyncPersistsAfterSnapshot ==
    [][last'.op = "MessageSync" =>
          LET tr == last'.trace
          IN  /\ tr[1].call = "provider.Sync"
              /\ ~tr[1].ok =>
                    /\ last'.err # "none"
                    /\ Len(tr) = 1
                    /\ db' = db
              /\ tr[1].ok =>
                    /\ Len(tr) >= 2
                    /\ tr[2].call = "db.SaveConversations"
                    /\ ~tr[2].ok =>
                          /\ last'.err # "none"
                          /\ Len(tr) = 2
                          /\ db'.msgs = db.msgs
                    /\ tr[2].ok =>
                          /\ Len(tr) = 3
                          /\ tr[3].call = "db.SaveMessages"
                          /\ \A c \in DOMAIN beeper.chats :
                                /\ c \in DOMAIN db'.convs
                                /\ db'.convs[c] = Conversation(beeper, c)
              /\ last'.err = "none" =>
                    \A m \in DOMAIN beeper.msgs :
                        /\ m \in DOMAIN db'.msgs
                        /\ db'.msgs[m] = Message(beeper, m)]_vars

C10_Witness ==
    /\ last.op = "MessageSync"
    /\ last.err = "saveConversations"
    /\ DOMAIN beeper.msgs # {}
    /\ DOMAIN db.convs # {}
    /\ DOMAIN db.msgs = {}


\* the ways a run of MessageManager.Sync against account b can end
SyncOutcomes(b) ==
    {o \in [fail : FailPoints(b), okC : BOOLEAN, okM : BOOLEAN,
            kC : 0..Cardinality(DOMAIN b.chats),
            kM : 0..Cardinality(DOMAIN b.msgs)] :
        /\ o.okC => o.kC = 0
        /\ o.okM => o.kM = 0
        /\ (o.fail # NoFail) => (o.okC /\ o.okM)
        /\ ~o.okC => o.okM}

\* MessageManager.Sync run to the end without a fault
SyncOnce(d, b) == MessageManagerSync(d, b, NoFail, 0, TRUE, 0, TRUE)

\* C11: whatever way a run of MessageManager.Sync ends, a successful run
\* after it against the same account leaves the store a single successful
\* run would have left: one row per conversation id and per message id of
\* the account, each equal to the provider's record; and a successful run
\* after a successful run changes nothing.
C11_RetryIsSafe ==
    /\ [](\A o \in SyncOutcomes(beeper) :
            LET first == MessageManagerSync(db, beeper, o.fail, o.kC, o.okC, o.kM, o.okM)
                again == SyncOnce(first.db, beeper)
            IN  /\ again.err = "none"
                /\ again.db = SyncOnce(db, beeper).db
                /\ \A c \in DOMAIN beeper.chats :
                      /\ c \in DOMAIN again.db.convs
                      /\ again.db.convs[c] = Conversation(beeper, c)
                /\ \A m \in DOMAIN beeper.msgs :
                      /\ m \in DOMAIN again.db.msgs
                      /\ again.db.msgs[m] = Message(beeper, m))
    /\ [][(/\ last.op = "MessageSync" /\ last.err = "none"
           /\ last'.op = "MessageSync" /\ last'.err = "none") => db' = db]_vars

\* a successful run right after a run that failed half way through saving
C11_Witness ==
    /\ prev = <<"MessageSync", "saveMessages">>
    /\ last.op = "MessageSync"
    /\ last.err = "none"
    /\ Cardinality(DOMAIN db.msgs) >= 2


-----------------------------------------------------------------------------
(* Claims about the provider fetches *)

\* the connections of pages 1..n, in page order
RECURSIVE PagesThrough(_, _)
PagesThrough(rem, n) ==
    IF n = 0 THEN <<>> ELSE PagesThrough(rem, n - 1) \o Page(rem, n)

\* the messages of the first n chats of the account, chat by chat
RECURSIVE MessagesThrough(_, _)
MessagesThrough(b, n) ==
    IF n = 0 THEN <<>>
    ELSE LET ms == MsgList(b, ChatList(b)[n])
         IN  MessagesThrough(b, n - 1) \o [j \in DOMAIN ms |-> Message(b, ms[j])]

\* C12: a successful FetchContacts requested every page once, up to the one
\* with no next-page token, and returns the connections of all pages in page
\* order; a successful BeeperProvider.Sync returns every chat and every
\* message of every chat in listing order; when a page request fails the
\* fetch stops there and returns an error and no record at all.
C12_FetchDrainsAllPages ==
    /\ [][/\ last'.op = "FetchContacts" =>
              LET f == last'.fetched
                  tr == last'.trace
                  all == PagesThrough(remote, NumPages(remote))
              IN  /\ last'.err = "none" =>
                        /\ Len(tr) = NumPages(remote)
                        /\ \A k \in DOMAIN tr : tr[k].ok
                        /\ f = [k \in DOMAIN all |->
                                  [convertPeopleAPIToContact(all[k])
                                      EXCEPT !.last_synced = Now]]
                  /\ last'.err # "none" => f = <<>>
                  /\ (\E k \in DOMAIN tr : ~tr[k].ok) =>
                        /\ last'.err # "none"
                        /\ ~tr[Len(tr)].ok
                        /\ \A k \in 1..(Len(tr) - 1) : tr[k].ok
          /\ last'.op = "BeeperSync" =>
              LET f == last'.fetched
                  cs == ChatList(beeper)
              IN  /\ last'.err = "none" =>
                        /\ f.conversations =
                              [k \in DOMAIN cs |-> Conversation(beeper, cs[k])]
                        /\ f.messages = MessagesThrough(beeper, Len(cs))
                  /\ last'.err # "none" =>
                        /\ f.conversations = <<>>
                        /\ f.messages = <<>>]_vars
    /\ [](\A fail \in FailPoints(beeper) \ {NoFail} :
            LET r == BeeperSync(beeper, fail)
            IN  /\ r.err # "none"
                /\ r.conversations = <<>>
                /\ r.messages = <<>>)

\* the second page of the connections failed, after a Beeper sync that
\* failed while listing messages
C12_Witness ==
    /\ prev = <<"BeeperSync", "messages">>
    /\ last.op = "FetchContacts"
    /\ last.err = "fetch"
    /\ Len(last.trace) = 2
    /\ last.trace[1].ok


-----------------------------------------------------------------------------
(* Claims about the layout of the message pane *)

\* message i (from 0) is the first of its day
FirstOfDay(msgs, i) ==
    i = 0 \/ ~sameDay(msgs[i + 1].timestamp, msgs[i].timestamp)

\* lines message i takes in a window that starts at message start
HeightInWindow(msgs, start, i, width) ==
    Len(formatMessage(msgs[i + 1], width,
                      IF i = start \/ FirstOfDay(msgs, i) THEN Nil ELSE <<msgs[i]>>))

\* every message from start on takes exactly two lines
TwoLineFixture(msgs, start, width) ==
    \A i \in start..(Len(msgs) - 1) : HeightInWindow(msgs, start, i, width) = 2

\* the messages after start are of the day of message start
OneDayFrom(msgs, start) ==
    \A i \in (start + 1)..(Len(msgs) - 1) : ~FirstOfDay(msgs, i)

\* C14 (as stated): with every message two lines high and five or more
\* messages from startIndex on, availableHeight 10 gives 5 and 9 gives 4.
C14_TwoLineFixtureCounts ==
    (/\ last.op = "calculateVisibleMessageCount"
     /\ Len(tui.messages) - last.startIndex >= 5
     /\ TwoLineFixture(tui.messages, last.startIndex, last.width))
    => /\ last.availableHeight = 10 => last.count = 5
       /\ last.availableHeight = 9 => last.count = 4

\* C14 (amended): date separators take room in the window.  With every
\* message two lines high and all of one day: when startIndex is not the
\* first message of its day no separator is measured, and availableHeight
\* 10 gives 5 and 9 gives 4; when the window starts with the day's
\* separator, which takes two lines, 10 gives 4 and 9 gives 3.
C14_TwoLineFixtureCountsWithoutSeparator ==
    (/\ last.op = "calculateVisibleMessageCount"
     /\ Len(tui.messages) - last.startIndex >= 5
     /\ TwoLineFixture(tui.messages, last.startIndex, last.width)
     /\ OneDayFrom(tui.messages, last.startIndex))
    => IF FirstOfDay(tui.messages, last.startIndex)
       THEN /\ last.availableHeight = 10 => last.count = 4
            /\ last.availableHeight = 9 => last.count = 3
       ELSE /\ last.availableHeight = 10 => last.count = 5
            /\ last.availableHeight = 9 => last.count = 4

C14_Witness ==
    /\ last.op = "calculateVisibleMessageCount"
    /\ Len(tui.messages) - last.startIndex >= 5
    /\ TwoLineFixture(tui.messages, last.startIndex, last.width)
    /\ OneDayFrom(tui.messages, last.startIndex)
    /\ ~FirstOfDay(tui.messages, last.startIndex)
    /\ last.availableHeight = 9
    /\ last.count = 4


\* lines the first n messages from start take, their separators included
RECURSIVE WindowLines(_, _, _, _)
WindowLines(msgs, start, n, width) ==
    IF n = 0 THEN 0
    ELSE LET i == start + n - 1
         IN  WindowLines(msgs, start, n - 1, width)
               + (IF FirstOfDay(msgs, i) THEN 2 ELSE 0)
               + HeightInWindow(msgs, start, i, width)

\* C15 (as stated): the result is at least 1 for every input.
C15_CountAtLeastOne ==
    last.op = "calculateVisibleMessageCount" => last.count >= 1

\* C15 (amended): for an empty list or a startIndex at or past the end the
\* result is 0.  Otherwise it is a number of messages, at least 1 and at most
\* the messages left: those messages and the separators before them fit in
\* availableHeight, or it is 1 and the first message, with its separator if
\* it starts a day, does not fit.
C15_CountsMessagesAtLeastOneInRange ==
    last.op = "calculateVisibleMessageCount" =>
        LET msgs == tui.messages
            start == last.startIndex
        IN  IF Len(msgs) = 0 \/ start >= Len(msgs)
            THEN last.count = 0
            ELSE /\ last.count >= 1
                 /\ last.count <= Len(msgs) - start
                 /\ \/ WindowLines(msgs, start, last.count, last.width)
                          <= last.availableHeight
                    \/ /\ last.count = 1
                       /\ WindowLines(msgs, start, 1, last.width)
                            > last.availableHeight

\* the first message alone does not fit
C15_Witness ==
    /\ last.op = "calculateVisibleMessageCount"
    /\ last.startIndex < Len(tui.messages)
    /\ HeightInWindow(tui.messages, last.startIndex, last.startIndex, last.width)
         > last.availableHeight
    /\ last.count = 1


\* C20 (as stated): in every frame of a pane whose viewport top is a
\* message of the list, each date separator drawn is directly followed by a
\* drawn message of its day.
C20_NoOrphanedSeparator ==
    (/\ last.op = "renderMessagesView"
     /\ tui.messagesViewTop < Len(tui.messages))
    => \A k \in DOMAIN last.drawn :
          last.drawn[k].kind = "separator" =>
              /\ k < Len(last.drawn)
              /\ last.drawn[k + 1].kind = "message"
              /\ sameDay(tui.messages[last.drawn[k + 1].index + 1].timestamp,
                         last.drawn[k].date)


-----------------------------------------------------------------------------
(* Claims about the messages TUI *)

\* the cursor message lies inside the measured window
InMeasuredWindow(m) ==
    /\ m.messagesViewTop <= m.messagesCursor
    /\ m.messagesCursor <
          m.messagesViewTop
            + calculateVisibleMessageCount(m.messages, m.messagesViewTop,
                                           m.width - 4, m.height - 4)

\* C13 (as stated): in the message pane with messages loaded, an up, down,
\* home or end key pressed while the cursor message lies inside the measured
\* window leaves it inside the measured window (the window size does not
\* change in such a step).
C13_CursorStaysInMeasuredWindow ==
    [][(/\ tui # Nil
        /\ last'.op = "key"
        /\ last'.key \in {"up", "k", "down", "j", "g", "home", "G", "end"}
        /\ tui.viewMode = "messages"
        /\ ~tui.confirmingDelete
        /\ Len(tui.messages) > 0
        /\ InMeasuredWindow(tui))
       => InMeasuredWindow(tui')]_vars


\* the start indices from which the measured window reaches the last message
ReachingEnd(m) ==
    {s \in 0..(Len(m.messages) - 1) :
        s + calculateVisibleMessageCount(m.messages, s, m.width - 4,
                                         Max2(1, m.height - 4)) >= Len(m.messages)}

\* C16: "G" or "end" in the message pane with messages loaded puts the
\* cursor on the last message and the viewport top on the largest start
\* index from which the measured window reaches the end of the list, and
\* changes nothing else.
C16_JumpToEnd ==
    [][(/\ tui # Nil
        /\ last'.op = "key"
        /\ last'.key \in {"G", "end"}
        /\ tui.viewMode = "messages"
        /\ ~tui.confirmingDelete
        /\ Len(tui.messages) > 0)
       => /\ ReachingEnd(tui) # {}
          /\ tui' = [tui EXCEPT !.messagesCursor = Len(tui.messages) - 1,
                                !.messagesViewTop = Max(ReachingEnd(tui))]]_vars

\* jumped to the end of a list that fits the window from its first message
C16_Witness ==
    /\ tui # Nil
    /\ last.op = "key"
    /\ last.key = "end"
    /\ tui.viewMode = "messages"
    /\ Len(tui.messages) >= 2
    /\ 0 \in ReachingEnd(tui)
    /\ tui.messagesCursor = Len(tui.messages) - 1
    /\ tui.messagesViewTop = Len(tui.messages) - 1


\* the keys the confirmation handler acts on
CancelKeys == {"n", "N", "esc"}

ConfirmKeys == {"y", "Y"} \cup CancelKeys

\* one step of the messages pane seen from its confirmation sub-state
ConfirmStepMessages ==
    /\ (tui.confirmingDelete /\ last'.op = "key") =>
          /\ last'.cmd = "none"
          /\ (last'.key \notin ConfirmKeys) => (tui' = tui /\ db' = db)
          /\ (last'.key \in ConfirmKeys) =>
                (~tui'.confirmingDelete /\ tui'.deleteConvID = "")
          /\ (last'.key \in CancelKeys) =>
                tui' = [tui EXCEPT !.confirmingDelete = FALSE,
                                   !.deleteConvID = ""]
    /\ (tui.confirmingDelete /\ ~tui'.confirmingDelete) =>
          (last'.op = "key" /\ last'.key \in ConfirmKeys)
    /\ (~tui.confirmingDelete /\ tui'.confirmingDelete) =>
          (last'.op = "key" /\ last'.key = "d" /\ tui.viewMode = "conversations")

\* one step of the contacts pane seen from its confirmation sub-state
ConfirmStepContacts ==
    /\ (ctui.confirmingDelete /\ last'.op = "key") =>
          /\ last'.cmd = "none"
          /\ (last'.key \notin ConfirmKeys) =>
                (ctui' = ctui /\ local' = local /\ remote' = remote)
          /\ (last'.key \in ConfirmKeys) =>
                (~ctui'.confirmingDelete /\ ctui'.deleteUID = <<>>)
          /\ (last'.key \in CancelKeys) =>
                /\ ctui' = [ctui EXCEPT !.confirmingDelete = FALSE,
                                        !.deleteUID = <<>>]
                /\ local' = local
                /\ remote' = remote
    /\ (ctui.confirmingDelete /\ ~ctui'.confirmingDelete) =>
          (last'.op = "key" /\ last'.key \in ConfirmKeys)
    /\ (~ctui.confirmingDelete /\ ctui'.confirmingDelete) =>
          (last'.op = "key" /\ last'.key = "d")

\* C17: while confirmingDelete is set, in the messages pane and in the
\* contacts pane, a key other than y/Y/n/N/esc changes nothing and runs no
\* command; y/Y/n/N/esc clear confirmingDelete and the pending id and are
\* the only way out of the sub-state; n/N/esc change nothing else; the
\* sub-state is entered only by "d".
C17_ConfirmationPreempts ==
    [][(tui # Nil => ConfirmStepMessages) /\ (ctui # Nil => ConfirmStepContacts)]_vars

\* "q" was pressed during a confirmation of the messages pane, which is
\* still open and still running
C17_Witness ==
    /\ tui # Nil
    /\ tui.confirmingDelete
    /\ last.op = "key"
    /\ last.key = "q"
    /\ last.cmd = "none"


\* the open action: enter in the conversation list on a valid selection
OpenStep ==
    (/\ last'.op = "key"
     /\ last'.key = "enter"
     /\ tui.viewMode = "conversations"
     /\ ~tui.confirmingDelete
     /\ tui.cursor >= 0
     /\ tui.cursor < Len(tui.conversations)) =>
        LET conv == tui.conversations[tui.cursor + 1]
        IN  /\ last'.cmd = "none"
            /\ tui'.viewMode = "messages"
            /\ tui'.selectedConvID = conv
            /\ tui'.messages = IF last'.loadOK THEN db.byConv[conv] ELSE <<>>
            /\ tui'.messagesCursor = 0
            /\ tui'.messagesViewTop = 0
            /\ tui'.conversations = tui.conversations
            /\ tui'.cursor = tui.cursor
            /\ tui'.viewportTop = tui.viewportTop
            /\ db' = db

\* the back action: q or esc in the message view
BackStep ==
    (/\ last'.op = "key"
     /\ last'.key \in {"q", "esc"}
     /\ tui.viewMode = "messages"
     /\ ~tui.confirmingDelete) =>
        /\ last'.cmd = "none"
        /\ tui'.viewMode = "conversations"
        /\ tui'.messages = <<>>
        /\ tui'.messagesCursor = 0
        /\ tui'.messagesViewTop = 0
        /\ tui'.conversations = tui.conversations
        /\ tui'.cursor = tui.cursor
        /\ tui'.viewportTop = tui.viewportTop
        /\ db' = db

\* C18: enter on a valid selection of the conversation list opens the
\* message view on the selected conversation with its stored messages
\* (none when the load fails) and both message positions at 0; q or esc
\* in the message view returns to the conversation list with no messages
\* held and both message positions at 0; neither changes the conversation
\* list, its cursor or the store, and the view mode changes in no other way.
C18_OpenAndBack ==
    [][tui # Nil =>
          /\ OpenStep
          /\ BackStep
          /\ (tui'.viewMode # tui.viewMode) =>
                /\ last'.op = "key"
                /\ last'.key \in (IF tui.viewMode = "messages"
                                  THEN {"q", "esc"} ELSE {"enter"})]_vars

\* a conversation of several messages was opened and browsed, and esc has
\* brought the program back to the conversation list
C18_Witness ==
    /\ tui # Nil
    /\ tui.viewMode = "conversations"
    /\ last.op = "key"
    /\ last.key = "esc"
    /\ tui.selectedConvID = "c1"
    /\ Len(db.byConv["c1"]) >= 2
    /\ tui.messages = <<>>


-----------------------------------------------------------------------------
(* Claims about the setup flows *)

\* C19: when a setup flow has ended because the user cancelled a prompt,
\* that run has written no file.
C19_CancelWritesNothing ==
    (setup # Nil /\ setup.result = "cancelled") => setup.written = {}


-----------------------------------------------------------------------------
(* Claims about date separators and grouping *)

\* the display items that are messages, as message indices
MessagesOf(items) ==
    LET ms == SelectSeq(items, isMessage)
    IN  [k \in DOMAIN ms |-> ms[k].message[1]]

\* C21: the items insertDateSeparators returns are the messages in their
\* input order, with a separator exactly in front of every message that is
\* the first of a run of messages of one day, carrying that message's date:
\* one separator per run and none elsewhere.
C21_OneSeparatorPerDayRun ==
    (last.op = "insertDateSeparators") =>
        LET msgs == tui.messages
            items == last.items
            runs == {i \in 0..(Len(msgs) - 1) : FirstOfDay(msgs, i)}
        IN  /\ MessagesOf(items) = [k \in 1..Len(msgs) |-> k - 1]
            /\ Cardinality({k \in DOMAIN items : isSeparator(items[k])})
                  = Cardinality(runs)
            /\ \A k \in DOMAIN items :
                  /\ isSeparator(items[k]) =>
                        /\ k < Len(items)
                        /\ isMessage(items[k + 1])
                        /\ items[k + 1].message[1] \in runs
                        /\ items[k].dateSeparator[1]
                              = msgs[items[k + 1].message[1] + 1].timestamp
                  /\ (isMessage(items[k]) /\ items[k].message[1] \in runs) =>
                        (k > 1 /\ isSeparator(items[k - 1]))

\* messages on days D1, D1, D2: two separators, before the first and the
\* third message
C21_Witness ==
    /\ last.op = "insertDateSeparators"
    /\ Len(tui.messages) = 3
    /\ sameDay(tui.messages[1].timestamp, tui.messages[2].timestamp)
    /\ ~sameDay(tui.messages[2].timestamp, tui.messages[3].timestamp)
    /\ Len(last.items) = 5
    /\ isSeparator(last.items[1])
    /\ isSeparator(last.items[4])
    /\ Cardinality({k \in DOMAIN last.items : isSeparator(last.items[k])}) = 2


\* distance of two timestamps, in minutes
Apart(t1, t2) == IF t1 >= t2 THEN t1 - t2 ELSE t2 - t1

\* C22: shouldGroupWithPrevious is true exactly when there is a predecessor
\* with the same sender, on the same calendar day, at most 5 minutes before
\* or after the message.
C22_GroupingRule ==
    (last.op = "shouldGroupWithPrevious") =>
        LET n == Len(tui.messages)
        IN  last.grouped <=>
                /\ n = 2
                /\ tui.messages[2].sender_uid = tui.messages[1].sender_uid
                /\ tui.messages[2].timestamp \div MinutesPerDay
                      = tui.messages[1].timestamp \div MinutesPerDay
                /\ Apart(tui.messages[2].timestamp, tui.messages[1].timestamp) <= 5

\* a message exactly five minutes before its predecessor was grouped
C22_Witness ==
    /\ last.op = "shouldGroupWithPrevious"
    /\ last.grouped
    /\ Len(tui.messages) = 2
    /\ tui.messages[1].timestamp - tui.messages[2].timestamp = 5


-----------------------------------------------------------------------------
(* Claims about the contact record *)

\* C23: PrimaryPhone is the value of the first phone number of type
\* "mobile" or "cell"; without one, the value of the first phone number;
\* without phone numbers, the empty string.
C23_PrimaryPhone ==
    (last.op = "PrimaryPhone") =>
        LET phones == local[<<"1">>].phone_numbers
            mobiles == {i \in DOMAIN phones : phones[i].type \in {"mobile", "cell"}}
        IN  last.value =
                IF phones = <<>> THEN ""
                ELSE IF mobiles # {}
                THEN phones[CHOOSE i \in mobiles : \A j \in mobiles : i <= j].value
                ELSE phones[1].value

\* a contact with a home number, then a cell number, then a mobile number
\* with another value: the cell number was returned
C23_Witness ==
    /\ last.op = "PrimaryPhone"
    /\ local[<<"1">>].phone_numbers =
          <<PhoneNumber("111", "home"), PhoneNumber("222", "cell"),
            PhoneNumber("111", "mobile")>>
    /\ last.value = "222"


-----------------------------------------------------------------------------
(* Claims about concurrent invocations *)

\* position of the first entry of a step in the step history (0: none)
StepAt(order, step) ==
    IF \E i \in DOMAIN order : order[i] = step
    THEN CHOOSE i \in DOMAIN order :
             order[i] = step /\ \A j \in 1..(i - 1) : order[j] # step
    ELSE 0

\* the sync fetched, then the delete ran from its provider request to its
\* return, then the sync made its first local write
FetchDeleteWrite ==
    /\ StepAt(procs.order, "fetch") > 0
    /\ StepAt(procs.order, "fetch") < StepAt(procs.order, "provider")
    /\ StepAt(procs.order, "provider") < StepAt(procs.order, "remove")
    /\ StepAt(procs.order, "remove") < StepAt(procs.order, "write")

\* C24: whenever SyncContacts and DeleteContact of a provider-assigned uid
\* run on one directory in the order fetch, the whole delete, the sync's
\* writes, and both return without error with the uid among the fetched
\* contacts, the local store ends with a record of a uid the account no
\* longer holds.
C24_InterleavingLeavesStaleRecord ==
    (/\ procs # Nil
     /\ procs.sync.pc = "done"
     /\ procs.sync.err = "none"
     /\ procs.del.pc = "done"
     /\ procs.del.err = "none"
     /\ FetchDeleteWrite
     /\ \E k \in DOMAIN procs.sync.fetched :
           procs.sync.fetched[k].uid = procs.del.uid)
        => /\ procs.del.uid \in DOMAIN local
           /\ procs.del.uid \notin DOMAIN remote

\* the interleaving has happened: both commands returned without error and
\* the deleted contact is back in the local store
C24_Witness ==
    /\ procs # Nil
    /\ procs.sync.pc = "done"
    /\ procs.sync.err = "none"
    /\ procs.del.pc = "done"
    /\ procs.del.err = "none"
    /\ FetchDeleteWrite
    /\ procs.del.uid \in DOMAIN local
    /\ procs.del.uid \notin DOMAIN remote


-----------------------------------------------------------------------------
(* Claims relating the measure and the frame *)

\* the messages a frame shows
DrawnMessages(drawn) == SelectSeq(drawn, LAMBDA d : d.kind = "message")

\* C25 (as stated): the number of messages renderMessagesView draws from
\* messagesViewTop on equals calculateVisibleMessageCount(messages,
\* messagesViewTop, width-4, height-4).
C25_MeasureEqualsRender ==
    (last.op = "renderMessagesView") =>
        Len(DrawnMessages(last.drawn))
            = calculateVisibleMessageCount(tui.messages, tui.messagesViewTop,
                                           tui.width - 4, tui.height - 4)


-----------------------------------------------------------------------------
(* Claims about the two list panes *)

\* a confirmed delete in the contacts pane
ConfirmedDeleteContacts ==
    (/\ ctui # Nil
     /\ ctui.confirmingDelete
     /\ last'.op = "key"
     /\ last'.key \in {"y", "Y"}) =>
        LET uid == ctui.deleteUID
            closed == [ctui EXCEPT !.confirmingDelete = FALSE, !.deleteUID = <<>>]
        IN  /\ uid \in Called(last'.trace, "os.Remove")
                          \cup Called(last'.trace, "provider.DeleteContact")
            /\ IsProviderContact(uid) => last'.trace[1].call = "provider.DeleteContact"
            /\ (last'.err = "none") =>
                  /\ uid \notin DOMAIN local'
                  /\ uid \notin DOMAIN remote'
                  /\ ctui'.contacts = RemoveFirstContact(ctui.contacts, uid)
                  /\ ~ctui'.confirmingDelete
            /\ (last'.err # "none") =>
                  /\ ctui' = closed
                  /\ local' = local

\* a confirmed delete in the conversations pane
ConfirmedDeleteConversations ==
    (/\ tui # Nil
     /\ tui.confirmingDelete
     /\ last'.op = "key"
     /\ last'.key \in {"y", "Y"}) =>
        /\ tui'.conversations = RemoveFirst(tui.conversations, tui.deleteConvID)
        /\ ~tui'.confirmingDelete
        /\ last'.trace = <<>>
        /\ db' = db
        /\ beeper' = beeper
        /\ local' = local
        /\ remote' = remote

\* C26: y/Y in the contacts pane's confirmation calls DeleteContact and
\* removes the contact from the list only if the call succeeded; if it
\* failed the list is unchanged and the pane only closes the dialog.  y/Y in
\* the conversations pane's confirmation removes the conversation from the
\* list and touches neither the store nor the provider.
C26_ConfirmedDeleteByPane ==
    [][ConfirmedDeleteContacts /\ ConfirmedDeleteConversations]_vars

\* a confirmed delete failed at the provider: both contacts are still listed
\* and stored, and the dialog is closed
C26_Witness ==
    /\ ctui # Nil
    /\ last.op = "key"
    /\ last.key = "y"
    /\ last.err = "provider"
    /\ ~ctui.confirmingDelete
    /\ Len(ctui.contacts) = 2
    /\ Cardinality(DOMAIN local) = 2


\* the cursor is an index of the list, 0 on an empty list
CursorValid(list, cursor) ==
    IF Len(list) = 0 THEN cursor = 0
    ELSE cursor >= 0 /\ cursor < Len(list)

\* C27 (as stated): in the conversation-list pane and the contacts pane the
\* cursor is always a valid index of the list (0 when it is empty), and no
\* key handler indexes the list out of range.
C27_CursorIsValidIndex ==
    /\ (tui # Nil) => CursorValid(tui.conversations, tui.cursor)
    /\ (ctui # Nil) => CursorValid(ctui.contacts, ctui.cursor)
    /\ last.cmd # "panic"


\* the cursor's row is one of the rows of the viewport
CursorInViewport(m) ==
    m.viewportTop <= m.cursor /\ m.cursor < m.viewportTop + m.height

\* C28 (as stated): in both list panes, with a height of at least 1 that
\* does not change and a list that is not empty, the viewport contains the
\* cursor: viewportTop <= cursor < viewportTop + height.
C28_ViewportContainsCursor ==
    /\ (tui # Nil /\ tui.height >= 1 /\ Len(tui.conversations) > 0)
          => CursorInViewport(tui)
    /\ (ctui # Nil /\ ctui.height >= 1 /\ Len(ctui.contacts) > 0)
          => CursorInViewport(ctui)


-----------------------------------------------------------------------------
(* Claims about the direction of the sync and the routing of writes *)

\* C29: SyncContacts calls neither the provider's WriteContact nor its
\* DeleteContact and leaves the account as it is; it removes no local
\* record; after a successful run the local uids are those from before
\* together with the fetched ones; after a failed fetch the local store is
\* unchanged.
C29_SyncPullOnlyAdditive ==
    [][last'.op = "SyncContacts" =>
          /\ Called(last'.trace, "provider.WriteContact") = {}
          /\ Called(last'.trace, "provider.DeleteContact") = {}
          /\ remote' = remote
          /\ DOMAIN local \subseteq DOMAIN local'
          /\ (last'.err = "none") =>
                DOMAIN local' = DOMAIN local
                    \cup {last'.fetched[i].uid : i \in DOMAIN last'.fetched}
          /\ (last'.err = "fetch") => local' = local]_vars

\* a sync has succeeded and fetched contacts, and the store still holds a
\* provider-assigned record of a contact that was deleted upstream
C29_Witness ==
    /\ last.op = "SyncContacts"
    /\ last.err = "none"
    /\ last.fetched # <<>>
    /\ \E u \in DOMAIN local : ~HasHyphen(u) /\ u \notin DOMAIN remote


\* C30: every WriteContact that has stored the record calls the provider's
\* WriteContact with it; an authenticated provider then issues an update of
\* people/<uid> exactly when the uid has no hyphen and a create otherwise.
\* An update adds no connection.  A successful create adds one connection
\* under an id the server assigns, and that id is not stored locally: the
\* record keeps its hyphenated uid and no other record changes, so the next
\* write of it is a create again.
C30_WriteRoutedByUidShape ==
    [][(last'.op = "WriteContact" /\ last'.err # "persist") =>
          LET uid == last'.uid
          IN  /\ uid \in Called(last'.trace, "provider.WriteContact")
              /\ (g.config /\ g.token) =>
                    /\ last'.req = "update" <=> ~HasHyphen(uid)
                    /\ last'.req = "create" <=> HasHyphen(uid)
              /\ (last'.req = "update") => DOMAIN remote' = DOMAIN remote
              /\ (last'.req = "create" /\ last'.err = "none") =>
                    /\ Cardinality(DOMAIN remote' \ DOMAIN remote) = 1
                    /\ DOMAIN remote \subseteq DOMAIN remote'
                    /\ DOMAIN local' = DOMAIN local \cup {uid}
                    /\ local'[uid].uid = uid
                    /\ \A u \in DOMAIN local \ {uid} : local'[u] = local[u]]_vars

\* C30 as stated: every WriteContact, whatever its outcome, calls the
\* provider's WriteContact with the record, and the request issued is an
\* update exactly when the uid has no hyphen and a create otherwise.
C30_EveryWriteIsPushed ==
    [][last'.op = "WriteContact" =>
          /\ last'.uid \in Called(last'.trace, "provider.WriteContact")
          /\ last'.req = "update" <=> ~HasHyphen(last'.uid)
          /\ last'.req = "create" <=> HasHyphen(last'.uid)]_vars

\* one locally created contact was written twice without error: both writes
\* were creates, the account holds two connections and the store one record
C30_Witness ==
    /\ last.op = "WriteContact"
    /\ last.err = "none"
    /\ last.req = "create"
    /\ prev = <<"WriteContact", "none">>
    /\ HasHyphen(last.uid)
    /\ DOMAIN local = {last.uid}
    /\ Cardinality(DOMAIN remote) = 2

=============================================================================
